---- MODULE Spec2Model ----
(***************************************************************************)
(* A model of the DQ Checker scan executor                                 *)
(* (src/src/Notebook/dq_checker_scan.py): the identity tagger, the rule    *)
(* emitters, the document assembler, the result reconciler and the         *)
(* orchestration of one run (execute_suite) against the run ledger         *)
(* (the stored procedures of src/src/Notebook/db_test.py).                 *)
(*                                                                         *)
(* Text.  A Python str is modelled as a sequence of symbols.  A symbol is  *)
(* a one-character string, except that the literal fragments the code      *)
(* itself writes (for instance "check_id:" or "checks for ") are single    *)
(* symbols.  Data supplied from outside (check names, table names) is      *)
(* drawn from sequences over a small alphabet that contains the symbols    *)
(* "[", "check_id:", "]" and digits, so that outside data can spell a tag. *)
(* Opaque texts that the code only stores or tests for emptiness (error    *)
(* texts, outcomes, logs) are TLA+ strings.                                *)
(***************************************************************************)
EXTENDS Integers, Sequences, FiniteSets, TLC

VARIABLES
    tg,      \* identity round trip: one check record through emit/echo/parse
    asm,     \* document assembly: a checks DataFrame and its rule document
    san,     \* value sanitizer: a value and its sanitized forms
    rec,     \* result reconciler: an engine report, its results, counts and rows
    \* execute_suite: its position and its local variables
    pc, conn, execution_log_id, checks_df, yaml_content, error_message,
    scan_output, results, counts,
    pending,            \* the exception caught by "except Exception as e"
    returned,           \* the summary returned to the caller
    raised,             \* the exception that reached the caller
    \* the outside world
    connections,        \* the metadata-store connections handed out
    dq_execution_logs,  \* the execution-log table
    dq_results,         \* the result table
    onelake,            \* the files put under LAKEHOUSE_PATH/LOGS_FOLDER
    calls               \* the external calls made so far, in order

(***************************************************************************)
(* Python values                                                           *)
(***************************************************************************)

\* None / NaN in a text-valued field (pd.notna is false for it)
NoneStr == <<"<None>">>

\* None / NaN in a number-valued field
NoneInt == 0 - 1

\* pd.notna on a text-valued field
notna(v) == v # NoneStr

\* pd.notna on a number-valued field
notna_num(v) == v # NoneInt

DigitChars == <<"0", "1", "2", "3", "4", "5", "6", "7", "8", "9">>

IsDigit(c) == \E d \in 1..10 : DigitChars[d] = c

DigitVal(c) == CHOOSE d \in 0..9 : DigitChars[d + 1] = c

\* str(n) / f"{n}" for a non-negative int
RECURSIVE str_int(_)
str_int(n) ==
    IF n < 10 THEN <<DigitChars[n + 1]>>
    ELSE str_int(n \div 10) \o <<DigitChars[(n % 10) + 1]>>

\* int(text) for a text of decimal digits
RECURSIVE int_str(_)
int_str(s) ==
    IF Len(s) = 0 THEN 0
    ELSE 10 * int_str(SubSeq(s, 1, Len(s) - 1)) + DigitVal(s[Len(s)])

\* "\n".join(lines)
RECURSIVE join_lines(_)
join_lines(lines) ==
    IF Len(lines) = 0 THEN <<>>
    ELSE IF Len(lines) = 1 THEN lines[1]
    ELSE lines[1] \o <<"\n">> \o join_lines(Tail(lines))

\* text.split("\n")
RECURSIVE split_lines(_)
split_lines(s) ==
    IF \A i \in 1..Len(s) : s[i] # "\n" THEN <<s>>
    ELSE LET i == CHOOSE k \in 1..Len(s) :
                      s[k] = "\n" /\ \A m \in 1..(k - 1) : s[m] # "\n"
         IN  <<SubSeq(s, 1, i - 1)>> \o split_lines(SubSeq(s, i + 1, Len(s)))

\* str.strip(chars)
RECURSIVE strip_chars(_, _)
strip_chars(s, chars) ==
    IF Len(s) = 0 THEN s
    ELSE IF s[1] \in chars THEN strip_chars(Tail(s), chars)
    ELSE IF s[Len(s)] \in chars THEN strip_chars(SubSeq(s, 1, Len(s) - 1), chars)
    ELSE s

\* the characters str.strip() removes
Whitespace == {" ", "\t", "\n", "\r"}

\* str.strip()
strip(s) == strip_chars(s, Whitespace)

\* sep.join(parts)
RECURSIVE py_join(_, _)
py_join(sep, parts) ==
    IF Len(parts) = 0 THEN <<>>
    ELSE IF Len(parts) = 1 THEN parts[1]
    ELSE parts[1] \o sep \o py_join(sep, Tail(parts))

\* s.replace(old, new) for a one-character old
RECURSIVE py_replace(_, _, _)
py_replace(s, old, new) ==
    IF Len(s) = 0 THEN s
    ELSE (IF s[1] = old THEN new ELSE <<s[1]>>) \o py_replace(Tail(s), old, new)

(***************************************************************************)
(* Value sanitizer                                                         *)
(***************************************************************************)

\* the values yaml_safe_value is given: None, a str, or a non-str (an int)
PyNone == [type |-> "NoneType", text |-> <<>>, num |-> 0]

PyStr(text) == [type |-> "str", text |-> text, num |-> 0]

PyInt(n) == [type |-> "int", text |-> <<>>, num |-> n]

\* the grave accent character (U+0060), written by name
GraveAccent == "<grave accent>"

YAML_SPECIAL_CHARS ==
    {":", "#", "{", "}", "[", "]", "&", "*", "!", "|", ">", "@", GraveAccent, "%"}

needs_quoting(value) ==
    \/ \E i \in 1..Len(value) : value[i] \in YAML_SPECIAL_CHARS
    \/ value[1] = "'" \/ value[1] = "\""
    \/ value[1] = " " \/ value[Len(value)] = " "

\* the block scalar of a multi-line value
block_scalar(value) ==
    LET indented == py_join(<<"\n", " ", " ", " ", " ", " ", " ", " ", " ">>,
                            split_lines(value))
    IN  <<"|", "\n", " ", " ", " ", " ", " ", " ", " ", " ">> \o indented

\* the double-quoted form of a single-line value
double_quoted(value) ==
    LET escaped == py_replace(py_replace(value, "\\", <<"\\", "\\">>),
                              "\"", <<"\\", "\"">>)
    IN  <<"\"">> \o escaped \o <<"\"">>

\* a sanitizer that tests for quoting before it tests for line breaks
yaml_safe_value_quoting_first(value) ==
    IF value.type = "NoneType" THEN <<>>
    ELSE LET stripped == strip(IF value.type # "str" THEN str_int(value.num)
                               ELSE value.text)
         IN  IF Len(stripped) = 0 THEN <<>>
             ELSE IF needs_quoting(stripped) THEN double_quoted(stripped)
             ELSE IF \E i \in 1..Len(stripped) : stripped[i] = "\n"
             THEN block_scalar(stripped)
             ELSE stripped

\* a sanitizer that also quotes values holding a backslash
yaml_safe_value_quoting_backslash(value) ==
    IF value.type = "NoneType" THEN <<>>
    ELSE LET stripped == strip(IF value.type # "str" THEN str_int(value.num)
                               ELSE value.text)
         IN  IF Len(stripped) = 0 THEN <<>>
             ELSE IF \E i \in 1..Len(stripped) : stripped[i] = "\n"
             THEN block_scalar(stripped)
             ELSE IF \/ needs_quoting(stripped)
                     \/ \E i \in 1..Len(stripped) : stripped[i] = "\\"
             THEN double_quoted(stripped)
             ELSE stripped

yaml_safe_value(value) ==
    IF value.type = "NoneType" THEN <<>>
    ELSE LET stripped == strip(IF value.type # "str" THEN str_int(value.num)
                               ELSE value.text)
         IN  IF Len(stripped) = 0 THEN <<>>
             ELSE IF \E i \in 1..Len(stripped) : stripped[i] = "\n"
             THEN block_scalar(stripped)
             ELSE IF needs_quoting(stripped) THEN double_quoted(stripped)
             ELSE stripped

(***************************************************************************)
(* Identity tagger                                                         *)
(***************************************************************************)

\* a tagger that tests the id for truth ("if check_id:") instead of pd.notna
tagged_check_name_if_truthy(check) ==
    IF notna_num(check.check_id) /\ check.check_id # 0
    THEN check.check_name \o <<" ", "[", "check_id:">> \o str_int(check.check_id) \o <<"]">>
    ELSE check.check_name

\* the check name with the check id appended for linking
tagged_check_name(check) ==
    IF notna_num(check.check_id)
    THEN check.check_name \o <<" ", "[", "check_id:">> \o str_int(check.check_id) \o <<"]">>
    ELSE check.check_name

\* the end of the longest run of digits of s that starts at position i
\* (i - 1 when s[i] is no digit)
RECURSIVE digits_end(_, _)
digits_end(s, i) ==
    IF i <= Len(s) /\ IsDigit(s[i]) THEN digits_end(s, i + 1) ELSE i - 1

\* the pattern \[check_id:(\d+)\] matches s at position i
tag_matches_at(s, i) ==
    /\ i + 3 <= Len(s)
    /\ s[i] = "["
    /\ s[i + 1] = "check_id:"
    /\ digits_end(s, i + 2) >= i + 2
    /\ digits_end(s, i + 2) + 1 <= Len(s)
    /\ s[digits_end(s, i + 2) + 1] = "]"

\* re.search(r'\[check_id:(\d+)\]', s): group(1) of the leftmost match
re_search_check_id(s) ==
    IF \E i \in 1..Len(s) : tag_matches_at(s, i)
    THEN LET i == CHOOSE k \in 1..Len(s) :
                      tag_matches_at(s, k) /\ \A m \in 1..(k - 1) : ~tag_matches_at(s, m)
         IN  SubSeq(s, i + 2, digits_end(s, i + 2))
    ELSE NoneStr

(***************************************************************************)
(* Rule emitters                                                           *)
(***************************************************************************)

\* a row of the checks DataFrame (pd.Series); absent fields are None
CheckRow(id, name, schema, table, metric, column) ==
    [check_id |-> id, check_name |-> name, schema_name |-> schema,
     table_name |-> table, metric |-> metric,
     column_name |-> column, column_name_quoted |-> NoneStr,
     warn_threshold |-> NoneInt, warn_comparison |-> NoneStr,
     fail_threshold |-> NoneInt, fail_comparison |-> NoneStr,
     freshness_column |-> NoneStr, freshness_threshold_value |-> NoneInt,
     freshness_threshold_unit |-> NoneStr,
     reference_table |-> NoneStr, reference_column |-> NoneStr,
     reference_column_quoted |-> NoneStr,
     custom_sql_query |-> NoneStr,
     scalar_query_a |-> NoneStr, scalar_query_b |-> NoneStr,
     scalar_operator |-> NoneStr,
     schema_required_columns |-> NoneStr, schema_forbidden_columns |-> NoneStr]

\* Python's "a or b" on optional texts: None and '' are falsy
py_or(a, b) == IF a = NoneStr \/ a = <<>> THEN b ELSE a

column_required_metrics ==
    {<<"missing_count">>, <<"missing_percent">>,
     <<"duplicate_count">>, <<"duplicate_percent">>,
     <<"min">>, <<"max">>, <<"avg">>, <<"sum">>,
     <<"invalid_count">>, <<"invalid_percent">>, <<"valid_count">>,
     <<"avg_length">>, <<"min_length">>, <<"reference">>}

\* a name line that leaves the tag out
name_line_without_tag(check) == <<"      name: ", "\"">> \o check.check_name \o <<"\"">>

\* the line '      name: "<tagged name>"'
name_line(check) == <<"      name: ", "\"">> \o tagged_check_name(check) \o <<"\"">>

\* a threshold emitter that writes the fail line first and '==' as it is
_generate_threshold_yaml_fail_first(check) ==
    (IF notna_num(check.fail_threshold) /\ notna(check.fail_comparison)
     THEN <<(<<"      fail: when ">> \o check.fail_comparison
             \o <<" ">> \o str_int(check.fail_threshold))>>
     ELSE <<>>)
    \o
    (IF notna_num(check.warn_threshold) /\ notna(check.warn_comparison)
     THEN <<(<<"      warn: when ">> \o check.warn_comparison
             \o <<" ">> \o str_int(check.warn_threshold))>>
     ELSE <<>>)

_generate_threshold_yaml(check) ==
    (IF notna_num(check.warn_threshold) /\ notna(check.warn_comparison)
     THEN <<(<<"      warn: when ">>
             \o (IF check.warn_comparison = <<"==">> THEN <<"=">> ELSE check.warn_comparison)
             \o <<" ">> \o str_int(check.warn_threshold))>>
     ELSE <<>>)
    \o
    (IF notna_num(check.fail_threshold) /\ notna(check.fail_comparison)
     THEN <<(<<"      fail: when ">>
             \o (IF check.fail_comparison = <<"==">> THEN <<"=">> ELSE check.fail_comparison)
             \o <<" ">> \o str_int(check.fail_threshold))>>
     ELSE <<>>)

_generate_freshness_yaml(check) ==
    IF /\ notna(check.freshness_column)
       /\ notna_num(check.freshness_threshold_value)
       /\ notna(check.freshness_threshold_unit)
    THEN << <<"  - ", "freshness", "(">> \o check.freshness_column \o <<")", " < ">>
              \o str_int(check.freshness_threshold_value)
              \o check.freshness_threshold_unit \o <<":">>,
            name_line(check) >>
    ELSE <<>>

\* f"{v}" of an optional text: None is rendered as the word None
py_str(v) == IF v = NoneStr THEN <<"None">> ELSE v

_generate_reference_yaml(check) ==
    IF notna(check.reference_table) /\ notna(check.reference_column)
    THEN LET source_column == py_or(check.column_name_quoted, check.column_name)
             ref_table     == check.reference_table
             ref_column    == py_or(check.reference_column_quoted, check.reference_column)
             source_fqn    == py_str(check.schema_name) \o <<".">> \o check.table_name
             ref_fqn       == <<"dbo", ".">> \o ref_table
         IN  << <<"  - ", "failed rows", ":">>,
                name_line(check),
                <<"      fail query: |">>,
                <<"        SELECT * FROM ">> \o source_fqn,
                <<"        WHERE ">> \o py_str(source_column) \o <<" IS NOT NULL">>,
                <<"          AND ">> \o py_str(source_column) \o <<" NOT IN (">>,
                <<"            SELECT ">> \o ref_column \o <<" FROM ">> \o ref_fqn,
                <<"          )">> >>
    ELSE <<>>

UpperChars == <<"A", "B", "C", "D", "E", "F", "G", "H", "I", "J", "K", "L", "M",
                "N", "O", "P", "Q", "R", "S", "T", "U", "V", "W", "X", "Y", "Z">>

LowerChars == <<"a", "b", "c", "d", "e", "f", "g", "h", "i", "j", "k", "l", "m",
                "n", "o", "p", "q", "r", "s", "t", "u", "v", "w", "x", "y", "z">>

\* str.lower()
lower(s) ==
    [i \in 1..Len(s) |->
        IF \E k \in 1..26 : UpperChars[k] = s[i]
        THEN LowerChars[CHOOSE k \in 1..26 : UpperChars[k] = s[i]]
        ELSE s[i]]

\* the character class [a-zA-Z0-9_]
IsWordChar(c) ==
    \/ \E k \in 1..26 : UpperChars[k] = c \/ LowerChars[k] = c
    \/ IsDigit(c)
    \/ c = "_"

\* re.sub(r'[^a-zA-Z0-9_]', '_', s)
re_sub_nonword(s) == [i \in 1..Len(s) |-> IF IsWordChar(s[i]) THEN s[i] ELSE "_"]

\* re.sub(r'_+', '_', s)
RECURSIVE re_sub_underscores(_)
re_sub_underscores(s) ==
    IF Len(s) < 2 THEN s
    ELSE IF s[1] = "_" /\ s[2] = "_" THEN re_sub_underscores(Tail(s))
    ELSE <<s[1]>> \o re_sub_underscores(Tail(s))

\* a derivation that keeps runs of underscores
safe_metric_name_without_collapse(check_name) ==
    strip_chars(re_sub_nonword(lower(check_name)), {"_"})

\* the metric name derived from the check name
safe_metric_name(check_name) ==
    strip_chars(re_sub_underscores(re_sub_nonword(lower(check_name))), {"_"})

_generate_custom_sql_yaml(check) ==
    IF notna(check.custom_sql_query)
    THEN LET custom_sql == strip(check.custom_sql_query)
             metric_name == safe_metric_name(check.check_name)
             sql_lines == split_lines(custom_sql)
         IN  << (IF notna(check.fail_comparison) /\ notna_num(check.fail_threshold)
                 THEN <<"  - ">> \o metric_name \o <<" ">>
                      \o (IF check.fail_comparison = <<"==">> THEN <<"=">>
                          ELSE check.fail_comparison)
                      \o <<" ">> \o str_int(check.fail_threshold) \o <<":">>
                 ELSE <<"  - ">> \o metric_name \o <<" = 0", ":">>),
                name_line(check),
                <<"      ">> \o metric_name \o <<" query: |">> >>
             \o [i \in 1..Len(sql_lines) |-> <<"        ">> \o sql_lines[i]]
    ELSE <<>>

\* an inversion that turns '>' into '<' and '<' into '>'
where_map_get_strict(operator) ==
    CASE operator = <<"==">> -> <<"query_a", " ", "!=", " ", "query_b">>
      [] operator = <<"!=">> -> <<"query_a", " ", "=", " ", "query_b">>
      [] operator = <<">">>  -> <<"query_a", " ", "<", " ", "query_b">>
      [] operator = <<">=">> -> <<"query_a", " ", "<", " ", "query_b">>
      [] operator = <<"<">>  -> <<"query_a", " ", ">", " ", "query_b">>
      [] operator = <<"<=">> -> <<"query_a", " ", ">", " ", "query_b">>
      [] OTHER -> <<"query_a", " ", "!=", " ", "query_b">>

\* where_map.get(operator, 'query_a != query_b'): the inverted comparison
where_map_get(operator) ==
    CASE operator = <<"==">> -> <<"query_a", " ", "!=", " ", "query_b">>
      [] operator = <<"!=">> -> <<"query_a", " ", "=", " ", "query_b">>
      [] operator = <<">">>  -> <<"query_a", " ", "<=", " ", "query_b">>
      [] operator = <<">=">> -> <<"query_a", " ", "<", " ", "query_b">>
      [] operator = <<"<">>  -> <<"query_a", " ", ">=", " ", "query_b">>
      [] operator = <<"<=">> -> <<"query_a", " ", ">", " ", "query_b">>
      [] OTHER -> <<"query_a", " ", "!=", " ", "query_b">>

\* a scalar emitter that asks for the first query only
_generate_scalar_comparison_yaml_first_query_only(check) ==
    IF notna(check.scalar_query_a)
    THEN << <<"  - ", "failed rows", ":">>,
            name_line(check),
            <<"      fail query: |">>,
            <<"        WHERE ">> \o where_map_get(check.scalar_operator) >>
    ELSE <<>>

_generate_scalar_comparison_yaml(check) ==
    IF notna(check.scalar_query_a) /\ notna(check.scalar_query_b)
    THEN LET query_a == strip(check.scalar_query_a)
             query_b == strip(check.scalar_query_b)
             operator == check.scalar_operator
         IN  << <<"  - ", "failed rows", ":">>,
                name_line(check),
                <<"      fail query: |">>,
                <<"        WITH comparison AS (">>,
                <<"          SELECT">>,
                <<"            (">> \o query_a \o <<") AS query_a,">>,
                <<"            (">> \o query_b \o <<") AS query_b">>,
                <<"        )">>,
                <<"        SELECT query_a, query_b, query_a - query_b AS difference">>,
                <<"        FROM comparison">>,
                <<"        WHERE ">> \o where_map_get(operator) >>
    ELSE <<>>

\* a Python object json.loads returns: None, True, False, an int (num), a
\* str (text) or a list (items), as its kind says
json_object(kind, num, text, items) ==
    [kind |-> kind, num |-> num, text |-> text, items |-> items]

\* a decoding step: it raised JSONDecodeError (ok is FALSE), or it read the
\* value and stands at position next
json_step(ok, value, next) == [ok |-> ok, value |-> value, next |-> next]

\* the position of the first character at or after i that is not JSON
\* whitespace
RECURSIVE json_skip_whitespace(_, _)
json_skip_whitespace(s, i) ==
    IF i <= Len(s) /\ s[i] \in {" ", "\t", "\n", "\r"}
    THEN json_skip_whitespace(s, i + 1)
    ELSE i

\* the literal stands at position i of s
json_literal_at(s, i, literal) ==
    /\ i + Len(literal) - 1 <= Len(s)
    /\ SubSeq(s, i, i + Len(literal) - 1) = literal

\* a string whose opening quote is at position i; escape sequences are not
\* among the payloads drawn
json_string(s, i) ==
    IF \E j \in (i + 1)..Len(s) : s[j] = "\""
    THEN LET j == CHOOSE k \in (i + 1)..Len(s) :
                      /\ s[k] = "\""
                      /\ \A m \in (i + 1)..(k - 1) : s[m] # "\""
             body == SubSeq(s, i + 1, j - 1)
         IN  IF \E m \in 1..Len(body) : body[m] \in {"\n", "\t", "\r"}
             THEN json_step(FALSE, json_object("None", 0, <<>>, <<>>), 0)
             ELSE json_step(TRUE, json_object("str", 0, body, <<>>), j + 1)
    ELSE json_step(FALSE, json_object("None", 0, <<>>, <<>>), 0)

\* an unsigned integer that starts at position i: '0', or a run of digits
\* that does not start with '0'
json_number(s, i) ==
    IF s[i] = "0" THEN json_step(TRUE, json_object("int", 0, <<>>, <<>>), i + 1)
    ELSE LET j == CHOOSE k \in i..Len(s) :
                      /\ \A m \in i..k : IsDigit(s[m])
                      /\ k < Len(s) => ~IsDigit(s[k + 1])
         IN  json_step(TRUE, json_object("int", int_str(SubSeq(s, i, j)), <<>>, <<>>), j + 1)

\* the value that starts at position i of s: an array, a string, a number
\* or a literal; objects are not among the payloads drawn
RECURSIVE json_value(_, _)
RECURSIVE json_elements(_, _, _)
json_value(s, i) ==
    IF i > Len(s) THEN json_step(FALSE, json_object("None", 0, <<>>, <<>>), 0)
    ELSE IF s[i] = "[" THEN
        LET j == json_skip_whitespace(s, i + 1)
        IN  IF j <= Len(s) /\ s[j] = "]" THEN json_step(TRUE, json_object("list", 0, <<>>, <<>>), j + 1)
            ELSE json_elements(s, j, <<>>)
    ELSE IF s[i] = "\"" THEN json_string(s, i)
    ELSE IF IsDigit(s[i]) THEN json_number(s, i)
    ELSE IF json_literal_at(s, i, <<"n", "u", "l", "l">>) THEN json_step(TRUE, json_object("None", 0, <<>>, <<>>), i + 4)
    ELSE IF json_literal_at(s, i, <<"t", "r", "u", "e">>) THEN json_step(TRUE, json_object("True", 0, <<>>, <<>>), i + 4)
    ELSE IF json_literal_at(s, i, <<"f", "a", "l", "s", "e">>)
    THEN json_step(TRUE, json_object("False", 0, <<>>, <<>>), i + 5)
    ELSE json_step(FALSE, json_object("None", 0, <<>>, <<>>), 0)

\* the elements of an array from position i on, after those in acc
json_elements(s, i, acc) ==
    LET r == json_value(s, i)
    IN  IF ~r.ok THEN json_step(FALSE, json_object("None", 0, <<>>, <<>>), 0)
        ELSE LET j == json_skip_whitespace(s, r.next)
             IN  IF j > Len(s) THEN json_step(FALSE, json_object("None", 0, <<>>, <<>>), 0)
                 ELSE IF s[j] = "]" THEN json_step(TRUE, json_object("list", 0, <<>>, Append(acc, r.value)), j + 1)
                 ELSE IF s[j] = ","
                 THEN json_elements(s, json_skip_whitespace(s, j + 1), Append(acc, r.value))
                 ELSE json_step(FALSE, json_object("None", 0, <<>>, <<>>), 0)

\* json.loads(s): the whole text is one value between optional whitespace
json_loads(s) ==
    LET r == json_value(s, json_skip_whitespace(s, 1))
    IN  IF ~r.ok THEN json_step(FALSE, json_object("None", 0, <<>>, <<>>), 0)
        ELSE IF json_skip_whitespace(s, r.next) # Len(s) + 1 THEN json_step(FALSE, json_object("None", 0, <<>>, <<>>), 0)
        ELSE r

\* bool(v) of a decoded value
json_truthy(v) ==
    CASE v.kind = "None" -> FALSE
      [] v.kind = "True" -> TRUE
      [] v.kind = "False" -> FALSE
      [] v.kind = "int"  -> v.num # 0
      [] v.kind = "str"  -> v.text # <<>>
      [] v.kind = "list" -> v.items # <<>>

\* repr(v) of a decoded value
RECURSIVE py_repr(_)
py_repr(v) ==
    CASE v.kind = "None" -> <<"N", "o", "n", "e">>
      [] v.kind = "True" -> <<"T", "r", "u", "e">>
      [] v.kind = "False" -> <<"F", "a", "l", "s", "e">>
      [] v.kind = "int"  -> str_int(v.num)
      [] v.kind = "str"  -> IF \E m \in 1..Len(v.text) : v.text[m] = "'"
                            THEN <<"\"">> \o v.text \o <<"\"">>
                            ELSE <<"'">> \o v.text \o <<"'">>
      [] v.kind = "list" ->
            <<"[">> \o py_join(<<",", " ">>, [m \in 1..Len(v.items) |-> py_repr(v.items[m])])
            \o <<"]">>

\* the lines '          - {col}' of 'for col in v': col is an element of a
\* list or a character of a str; on any other value the loop raises
\* TypeError, which the bare except swallows after the lines before the loop
\* were appended
column_lines(v) ==
    CASE v.kind = "list" ->
            [m \in 1..Len(v.items) |->
                <<"          - ">>
                \o (IF v.items[m].kind = "str" THEN v.items[m].text
                    ELSE py_repr(v.items[m]))]
      [] v.kind = "str" -> [m \in 1..Len(v.text) |-> <<"          - ", v.text[m]>>]
      [] OTHER -> <<>>

\* the required-columns step: the lines after it
schema_required_step(lines, check) ==
    IF notna(check.schema_required_columns)
    THEN LET required == json_loads(check.schema_required_columns)
         IN  IF required.ok /\ json_truthy(required.value)
             THEN lines \o << <<"      fail:">>, <<"        when required column missing:">> >>
                  \o column_lines(required.value)
             ELSE lines
    ELSE lines

\* the forbidden-columns step: the lines after it
schema_forbidden_step(lines, check) ==
    IF notna(check.schema_forbidden_columns)
    THEN LET forbidden == json_loads(check.schema_forbidden_columns)
         IN  IF forbidden.ok /\ json_truthy(forbidden.value)
             THEN lines
                  \o (IF \E m \in 1..Len(lines) : lines[m] = <<"      fail:">>
                      THEN <<>> ELSE << <<"      fail:">> >>)
                  \o << <<"        when forbidden column present:">> >>
                  \o column_lines(forbidden.value)
             ELSE lines
    ELSE lines

_generate_schema_yaml(check) ==
    schema_forbidden_step(
        schema_required_step(<< <<"  - schema:">>, name_line(check) >>, check),
        check)

\* the lines of one check (a sequence of lines, possibly empty)
_generate_check_yaml(check) ==
    LET column == py_or(check.column_name_quoted, check.column_name)
    IN  IF check.metric = <<"freshness">> THEN _generate_freshness_yaml(check)
        ELSE IF check.metric = <<"schema">> THEN _generate_schema_yaml(check)
        ELSE IF check.metric = <<"reference">> THEN _generate_reference_yaml(check)
        ELSE IF check.metric \in {<<"user_defined">>, <<"custom_sql">>}
        THEN _generate_custom_sql_yaml(check)
        ELSE IF check.metric = <<"scalar_comparison">>
        THEN _generate_scalar_comparison_yaml(check)
        ELSE << (IF notna(column) /\ check.metric \in column_required_metrics
                 THEN <<"  - ">> \o check.metric \o <<"(">> \o column \o <<")", ":">>
                 ELSE <<"  - ">> \o check.metric \o <<":">>),
                name_line(check) >>
             \o _generate_threshold_yaml(check)

(***************************************************************************)
(* Document assembler                                                      *)
(***************************************************************************)

\* ord(c) of the characters that occur in schema and table names
ord(c) ==
    CASE c = " " -> 32
      [] c = "-" -> 45
      [] c = "." -> 46
      [] OTHER -> 96 + (CHOOSE k \in 1..26 : LowerChars[k] = c)

\* a < b for Python str
RECURSIVE str_less(_, _)
str_less(a, b) ==
    IF Len(b) = 0 THEN FALSE
    ELSE IF Len(a) = 0 THEN TRUE
    ELSE IF a[1] # b[1] THEN ord(a[1]) < ord(b[1])
    ELSE str_less(Tail(a), Tail(b))

\* (schema, table) key tuples in Python's tuple order
key_less(k1, k2) ==
    \/ str_less(k1[1], k2[1])
    \/ k1[1] = k2[1] /\ str_less(k1[2], k2[2])

\* sorted(keys)
RECURSIVE sorted_keys(_)
sorted_keys(keys) ==
    IF keys = {} THEN <<>>
    ELSE LET least == CHOOSE k \in keys : \A o \in keys \ {k} : key_less(k, o)
         IN  <<least>> \o sorted_keys(keys \ {least})

\* the rows of one (schema, table) group, in input order
RECURSIVE select_rows(_, _, _)
select_rows(rows, schema_name, table_name) ==
    IF Len(rows) = 0 THEN <<>>
    ELSE (IF rows[1].schema_name = schema_name /\ rows[1].table_name = table_name
          THEN <<rows[1]>> ELSE <<>>)
         \o select_rows(Tail(rows), schema_name, table_name)

\* checks_df.groupby(['schema_name', 'table_name']): the groups in sorted key
\* order, each with its rows in input order; rows with a missing key are
\* dropped (dropna=True is the default)
groupby_schema_table(df) ==
    LET keys == {<<df[i].schema_name, df[i].table_name>> :
                    i \in {j \in 1..Len(df) :
                              /\ notna(df[j].schema_name)
                              /\ notna(df[j].table_name)}}
        order == sorted_keys(keys)
    IN  [g \in 1..Len(order) |->
            [schema_name |-> order[g][1], table_name |-> order[g][2],
             table_checks |-> select_rows(df, order[g][1], order[g][2])]]

contains_char(s, c) == \E i \in 1..Len(s) : s[i] = c

\* a resolution that tests the connection's schema before the quoting
fully_qualified_table_schema_first(schema_name, table_name, schema_in_connection) ==
    IF /\ schema_in_connection # NoneStr /\ schema_in_connection # <<>>
       /\ notna(schema_name) /\ schema_name = schema_in_connection
    THEN table_name
    ELSE IF contains_char(table_name, " ") \/ contains_char(table_name, "-")
    THEN <<"\"">> \o table_name \o <<"\"">>
    ELSE IF notna(schema_name) /\ ~contains_char(table_name, ".")
    THEN schema_name \o <<".">> \o table_name
    ELSE table_name

\* the table identifier of a group's header
fully_qualified_table(schema_name, table_name, schema_in_connection) ==
    IF contains_char(table_name, " ") \/ contains_char(table_name, "-")
    THEN <<"\"">> \o table_name \o <<"\"">>
    ELSE IF /\ schema_in_connection # NoneStr /\ schema_in_connection # <<>>
            /\ notna(schema_name) /\ schema_name = schema_in_connection
    THEN table_name
    ELSE IF notna(schema_name) /\ ~contains_char(table_name, ".")
    THEN schema_name \o <<".">> \o table_name
    ELSE table_name

\* the lines of all checks of one group
RECURSIVE table_check_lines(_)
table_check_lines(table_checks) ==
    IF Len(table_checks) = 0 THEN <<>>
    ELSE _generate_check_yaml(table_checks[1]) \o table_check_lines(Tail(table_checks))

\* a block that keeps its header when the group has no lines
table_block_always_header(g, schema_in_connection) ==
    << <<"checks for ">>
       \o fully_qualified_table(g.schema_name, g.table_name, schema_in_connection)
       \o <<":">> >>
    \o table_check_lines(g.table_checks) \o << <<>> >>

\* the block of one group: header, the lines of its checks, an empty line;
\* nothing when the group has no lines
table_block(g, schema_in_connection) ==
    LET check_lines == table_check_lines(g.table_checks)
    IN  IF Len(check_lines) > 0
        THEN << <<"checks for ">>
                \o fully_qualified_table(g.schema_name, g.table_name,
                                         schema_in_connection)
                \o <<":">> >>
             \o check_lines \o << <<>> >>
        ELSE <<>>

\* the lines of the blocks of the groups
RECURSIVE yaml_lines(_, _)
yaml_lines(groups, schema_in_connection) ==
    IF Len(groups) = 0 THEN <<>>
    ELSE table_block(groups[1], schema_in_connection)
         \o yaml_lines(Tail(groups), schema_in_connection)

\* an assembler without the test for an empty DataFrame
generate_yaml_from_checks_without_empty_test(df, schema_in_connection) ==
    join_lines(yaml_lines(groupby_schema_table(df), schema_in_connection))

generate_yaml_from_checks(df, schema_in_connection) ==
    IF Len(df) = 0 THEN <<"# No checks found", "\n">>
    ELSE join_lines(yaml_lines(groupby_schema_table(df), schema_in_connection))

(***************************************************************************)
(* Result reconciler                                                       *)
(***************************************************************************)

\* a key the engine left out of a reported check
Absent == "<absent>"

\* one entry of scan_results['checks']: name is a text or NoneStr when the
\* key is missing, outcome a string or Absent, diagnostics <<>> when there is
\* no 'value' key under 'diagnostics' and <<v>> when there is, value a number
\* or NoneInt
ReportedCheck(name, outcome, diagnostics, value) ==
    [name |-> name, outcome |-> outcome, diagnostics |-> diagnostics, value |-> value]

\* a reconciler that prefers the top-level value to the diagnostics value
parse_one_top_level_first(check) ==
    LET check_name == IF check.name = NoneStr THEN <<>> ELSE check.name
        m == re_search_check_id(check_name)
    IN  [check_id   |-> IF m # NoneStr THEN int_str(m) ELSE NoneInt,
         check_name |-> check_name,
         outcome    |-> IF check.outcome = Absent THEN "unknown" ELSE check.outcome,
         value      |-> IF check.value # NoneInt THEN check.value
                        ELSE IF Len(check.diagnostics) > 0 THEN check.diagnostics[1]
                        ELSE check.value]

parse_one(check) ==
    LET check_name == IF check.name = NoneStr THEN <<>> ELSE check.name
        m == re_search_check_id(check_name)
    IN  [check_id   |-> IF m # NoneStr THEN int_str(m) ELSE NoneInt,
         check_name |-> check_name,
         outcome    |-> IF check.outcome = Absent THEN "unknown" ELSE check.outcome,
         value      |-> IF Len(check.diagnostics) > 0 THEN check.diagnostics[1]
                        ELSE check.value]

\* scan_results is modelled by its 'checks' list
parse_scan_results(checks) == [i \in 1..Len(checks) |-> parse_one(checks[i])]

count_of(rs, outcome) ==
    Cardinality({i \in 1..Len(rs) : rs[i].outcome = outcome})

\* a count whose total leaves out the outcomes of other categories
count_outcomes_total_of_known(rs) ==
    [total  |-> count_of(rs, "pass") + count_of(rs, "fail")
                + count_of(rs, "warn") + count_of(rs, "error"),
     passed |-> count_of(rs, "pass"),
     failed |-> count_of(rs, "fail"),
     warned |-> count_of(rs, "warn"),
     errors |-> count_of(rs, "error")]

count_outcomes(rs) ==
    [total  |-> Len(rs),
     passed |-> count_of(rs, "pass"),
     failed |-> count_of(rs, "fail"),
     warned |-> count_of(rs, "warn"),
     errors |-> count_of(rs, "error")]


(***************************************************************************)
(* Run ledger: the stored procedures and the functions that call them      *)
(***************************************************************************)

\* None for an opaque text (error_message = None, SQL NULL)
NoneText == "<None>"

\* truthiness of an optional opaque text: None and '' are falsy
truthy(text) == text # NoneText /\ text # ""

\* sp_create_execution_log inserting the row twice
sp_create_execution_log_twice(table, run_id, suite_id) ==
    table \o
    [k \in 1..2 |->
        [execution_log_id |-> Len(table) + k, run_id |-> run_id, suite_id |-> suite_id,
         execution_status |-> "running",
         total_checks |-> NoneInt, checks_passed |-> NoneInt, checks_failed |-> NoneInt,
         checks_warned |-> NoneInt, has_failures |-> NoneInt,
         generated_yaml |-> NoneStr, error_message |-> NoneText]]

\* sp_create_execution_log: INSERT a row with status 'running';
\* execution_log_id is IDENTITY(1,1)
sp_create_execution_log(table, run_id, suite_id) ==
    Append(table,
        [execution_log_id |-> Len(table) + 1, run_id |-> run_id, suite_id |-> suite_id,
         execution_status |-> "running",
         total_checks |-> NoneInt, checks_passed |-> NoneInt, checks_failed |-> NoneInt,
         checks_warned |-> NoneInt, has_failures |-> NoneInt,
         generated_yaml |-> NoneStr, error_message |-> NoneText])

\* update_execution_log ignoring the error message for the status
update_execution_log_always_completed(log_id, cnts, yaml, err) ==
    [execution_log_id |-> log_id,
     status         |-> "completed",
     total_checks   |-> cnts.total,
     checks_passed  |-> cnts.passed,
     checks_failed  |-> cnts.failed,
     checks_warned  |-> cnts.warned,
     has_failures   |-> IF cnts.failed > 0 THEN 1 ELSE 0,
     generated_yaml |-> yaml,
     error_message  |-> IF truthy(err) THEN err ELSE NoneText]

\* update_execution_log deriving the status from the failed count instead of
\* from the error message
update_execution_log_status_by_failures(log_id, cnts, yaml, err) ==
    [execution_log_id |-> log_id,
     status         |-> IF cnts.failed > 0 THEN "failed" ELSE "completed",
     total_checks   |-> cnts.total,
     checks_passed  |-> cnts.passed,
     checks_failed  |-> cnts.failed,
     checks_warned  |-> cnts.warned,
     has_failures   |-> IF cnts.failed > 0 THEN 1 ELSE 0,
     generated_yaml |-> yaml,
     error_message  |-> IF truthy(err) THEN err ELSE NoneText]

\* the parameters update_execution_log passes to sp_update_execution_log
update_execution_log(log_id, cnts, yaml, err) ==
    [execution_log_id |-> log_id,
     status         |-> IF truthy(err) THEN "failed" ELSE "completed",
     total_checks   |-> cnts.total,
     checks_passed  |-> cnts.passed,
     checks_failed  |-> cnts.failed,
     checks_warned  |-> cnts.warned,
     has_failures   |-> IF cnts.failed > 0 THEN 1 ELSE 0,
     generated_yaml |-> yaml,
     error_message  |-> IF truthy(err) THEN err ELSE NoneText]

\* sp_update_execution_log: UPDATE ... WHERE execution_log_id = @execution_log_id;
\* a NULL parameter keeps the column (COALESCE)
sp_update_execution_log(table, p) ==
    [i \in 1..Len(table) |->
        IF table[i].execution_log_id = p.execution_log_id
        THEN [table[i] EXCEPT
                 !.execution_status = p.status,
                 !.total_checks   = p.total_checks,
                 !.checks_passed  = p.checks_passed,
                 !.checks_failed  = p.checks_failed,
                 !.checks_warned  = p.checks_warned,
                 !.has_failures   = p.has_failures,
                 !.generated_yaml = p.generated_yaml,
                 !.error_message  = IF p.error_message = NoneText
                                    THEN table[i].error_message ELSE p.error_message]
        ELSE table[i]]

\* the parameters write_results_to_db passes to sp_insert_result for one result
insert_result_params(log_id, run_id, r) ==
    [run_id |-> run_id,
     execution_log_id |-> log_id,
     check_id      |-> IF r.check_id # NoneInt /\ r.check_id # 0 THEN r.check_id ELSE NoneInt,
     check_name    |-> r.check_name,
     check_outcome |-> r.outcome,
     check_value   |-> r.value]

\* sp_insert_result: INSERT one row
sp_insert_result(table, p) == Append(table, p)

\* write_results_to_db: one sp_insert_result call per result, in order
RECURSIVE write_results_to_db(_, _, _, _)
write_results_to_db(table, log_id, run_id, rs) ==
    IF Len(rs) = 0 THEN table
    ELSE write_results_to_db(
             sp_insert_result(table, insert_result_params(log_id, run_id, rs[1])),
             log_id, run_id, Tail(rs))

(***************************************************************************)
(* Inputs                                                                  *)
(***************************************************************************)

\* the longest check name drawn
MaxNameLen == 4

\* the longest column-list payload drawn exhaustively
MaxPayloadLen == 4

\* the largest check id drawn
MaxId == 11

\* the symbols check names are made of
NameAlphabet == {"a", " ", "[", "check_id:", "1", "]"}

Texts(alphabet, n) == UNION {[1..k -> alphabet] : k \in 0..n}

CheckNames == Texts(NameAlphabet, MaxNameLen)

CheckIds == 0..MaxId

vars == <<tg, asm, san, rec, pc, conn, execution_log_id, checks_df, yaml_content, error_message,
          scan_output, results, counts, pending, returned, raised,
          connections, dq_execution_logs, dq_results, onelake, calls>>

\* no exception
NoException == [origin |-> "none", text |-> ""]

\* nothing returned
NoSummary ==
    [run_id |-> "", execution_log_id |-> NoneInt, status |-> "none", has_failures |-> FALSE,
     total |-> NoneInt, passed |-> NoneInt, failed |-> NoneInt, warned |-> NoneInt,
     errors |-> NoneInt]

\* execute_suite has not been called
RunIdle ==
    /\ pc = "idle" /\ conn = 0 /\ execution_log_id = NoneInt /\ checks_df = <<>>
    /\ yaml_content = <<>> /\ error_message = NoneText
    /\ scan_output = [results |-> <<>>, logs |-> "", has_errors |-> FALSE,
                      error_logs |-> NoneText]
    /\ results = <<>> /\ counts = [total |-> 0, passed |-> 0, failed |-> 0, warned |-> 0]
    /\ pending = NoException
    /\ returned = NoSummary
    /\ raised = NoException
    /\ connections = <<>> /\ dq_execution_logs = <<>> /\ dq_results = <<>>
    /\ onelake = {} /\ calls = <<>>

run_vars == <<pc, conn, execution_log_id, checks_df, yaml_content, error_message,
              scan_output, results, counts, pending, returned, raised,
              connections, dq_execution_logs, dq_results, onelake, calls>>

(***************************************************************************)
(* Identity round trip: a record is emitted, the engine echoes the label   *)
(* of its name line, the reconciler parses the echoed label.               *)
(***************************************************************************)

RecIdle == [stage |-> "idle", checks |-> <<>>, results |-> <<>>,
            counts |-> <<>>, rows |-> <<>>]

SanIdle == [stage |-> "idle", value |-> PyNone, once |-> <<>>, twice |-> <<>>]

AsmIdle == [stage |-> "idle", checks_df |-> <<>>, schema_in_connection |-> NoneStr,
            yaml_content |-> <<>>]

TgIdle == [stage |-> "idle", check |-> <<>>, lines |-> <<>>, reported |-> <<>>, results |-> <<>>]

TagInit ==
    /\ \E name \in CheckNames, id \in CheckIds \cup {NoneInt} :
          tg = [stage |-> "record",
                check |-> CheckRow(id, name, <<"d">>, <<"t">>, <<"row_count">>, NoneStr),
                lines |-> <<>>, reported |-> <<>>, results |-> <<>>]
    /\ asm = AsmIdle
    /\ san = SanIdle /\ rec = RecIdle
    /\ RunIdle

\* _generate_check_yaml on the record
TagEmit ==
    /\ tg.stage = "record"
    /\ tg' = [tg EXCEPT !.stage = "emitted", !.lines = _generate_check_yaml(tg.check)]
    /\ UNCHANGED <<asm, san, rec, run_vars>>

\* the label between the quotes of the name line
label_of(line) == SubSeq(line, 3, Len(line) - 1)

\* the engine reports the check under the label of its name line
TagEcho ==
    /\ tg.stage = "emitted"
    /\ tg' = [tg EXCEPT !.stage = "echoed", !.reported = label_of(tg.lines[2])]
    /\ UNCHANGED <<asm, san, rec, run_vars>>

\* parse_scan_results on the engine's report
TagParse ==
    /\ tg.stage = "echoed"
    /\ \E outcome \in {"pass", "fail"} :
          tg' = [tg EXCEPT !.stage = "parsed",
                           !.results = parse_scan_results(
                               <<ReportedCheck(tg.reported, outcome, <<>>, NoneInt)>>)]
    /\ UNCHANGED <<asm, san, rec, run_vars>>

TagNext == TagEmit \/ TagEcho \/ TagParse


TagSpec == TagInit /\ [][TagNext]_vars

\* the text s contains a tag: "[", "check_id:", one or more digits, "]"
ContainsTag(s) ==
    \E i \in 1..Len(s), j \in 1..Len(s) :
        /\ s[i] = "[" /\ i + 1 <= Len(s) /\ s[i + 1] = "check_id:"
        /\ j >= i + 2 /\ j + 1 <= Len(s)
        /\ \A k \in (i + 2)..j : IsDigit(s[k])
        /\ s[j + 1] = "]"

\* C9: identity round trip.  For every id >= 0 and every check name without
\* a tag, the id the reconciler recovers from the label of the emitted name
\* line is that id; for a record without id the label is the name itself
\* and no id is recovered.
C9_RoundTrip ==
    (tg.stage = "parsed" /\ ~ContainsTag(tg.check.check_name)) =>
        /\ Len(tg.results) = 1
        /\ tg.check.check_id >= 0 => tg.results[1].check_id = tg.check.check_id
        /\ tg.check.check_id = NoneInt =>
              /\ tg.reported = tg.check.check_name
              /\ tg.results[1].check_id = NoneInt

\* a record with a two-digit id, whose name ends in an unfinished tag, was
\* taken through the round trip and its id recovered
C9_Witness ==
    /\ tg.stage = "parsed"
    /\ tg.check.check_name = <<"a", "[", "check_id:", "1">>
    /\ tg.check.check_id = 10
    /\ tg.results[1].check_id = 10


(***************************************************************************)
(* Document assembly: a checks DataFrame is drawn and assembled.           *)
(***************************************************************************)

\* the most rows a drawn DataFrame has
MaxChecks == 3

SchemaNames == {NoneStr, <<"d">>, <<"s">>}

TableNames == {<<"t">>, <<"u">>}

\* the kinds of record drawn: a row_count check, a missing_count check on a
\* column, a freshness check that lacks its freshness column
Payloads == {"row_count", "missing_count", "freshness_incomplete"}

\* the row with check_id id (rows are read ORDER BY check_id)
DrawnRow(id, schema, table, payload) ==
    CASE payload = "row_count" ->
            CheckRow(id, <<"a">>, schema, table, <<"row_count">>, NoneStr)
      [] payload = "missing_count" ->
            CheckRow(id, <<"a">>, schema, table, <<"missing_count">>, <<"c">>)
      [] payload = "freshness_incomplete" ->
            [CheckRow(id, <<"a">>, schema, table, <<"freshness">>, NoneStr)
                EXCEPT !.freshness_threshold_value = 1,
                       !.freshness_threshold_unit = <<"d">>]

RowShapes == SchemaNames \X TableNames \X Payloads

\* the DataFrame of n rows with the given shapes, check ids ascending
DrawnFrame(n, shapes) ==
    [i \in 1..n |-> DrawnRow(i, shapes[i][1], shapes[i][2], shapes[i][3])]

AsmInit ==
    /\ \E n \in 0..MaxChecks :
          \E shapes \in [1..n -> RowShapes], sic \in {NoneStr, <<"d">>} :
             asm = [stage |-> "read", checks_df |-> DrawnFrame(n, shapes),
                    schema_in_connection |-> sic, yaml_content |-> <<>>]
    /\ tg = TgIdle
    /\ san = SanIdle /\ rec = RecIdle
    /\ RunIdle

AsmAssemble ==
    /\ asm.stage = "read"
    /\ asm' = [asm EXCEPT !.stage = "assembled",
                          !.yaml_content = generate_yaml_from_checks(
                              asm.checks_df, asm.schema_in_connection)]
    /\ UNCHANGED <<tg, san, rec, run_vars>>

AsmNext == AsmAssemble

AsmSpec == AsmInit /\ [][AsmNext]_vars

\* the category-specific required fields of a record are present
RequiredPresent(check) ==
    IF check.metric = <<"freshness">>
    THEN /\ check.freshness_column # NoneStr
         /\ check.freshness_threshold_value # NoneInt
         /\ check.freshness_threshold_unit # NoneStr
    ELSE \/ check.metric = <<"row_count">>
         \/ check.column_name # NoneStr \/ check.column_name_quoted # NoneStr

IsHeader(line) == Len(line) > 0 /\ line[1] = "checks for "

\* the number of 'checks for' blocks of the document that hold the line
BlocksHolding(doc, line) ==
    LET ls == split_lines(doc)
    IN  Cardinality({i \in 1..Len(ls) :
            /\ ls[i] = line
            /\ \E h \in 1..(i - 1) : IsHeader(ls[h])})

\* C10: grouping completeness.  Every record whose required fields are
\* present has its stanza (its tagged name line) in exactly one block of the
\* assembled document, also when its schema is absent.
C10_GroupingComplete ==
    asm.stage = "assembled" =>
        \A i \in 1..Len(asm.checks_df) :
            RequiredPresent(asm.checks_df[i]) =>
                BlocksHolding(asm.yaml_content, name_line(asm.checks_df[i])) = 1


\* the rows of the DataFrame that compile to at least one line
EmittedRows(df) == {i \in 1..Len(df) : _generate_check_yaml(df[i]) # <<>>}

\* the (schema, table) pairs of the DataFrame with an emitted stanza
EmittedPairs(df) == {<<df[i].schema_name, df[i].table_name>> : i \in EmittedRows(df)}

HeaderPositions(ls) == {h \in 1..Len(ls) : IsHeader(ls[h])}

\* the position of the line in the document's lines (0 when it is not there)
PositionOf(ls, line) ==
    IF \E i \in 1..Len(ls) : ls[i] = line
    THEN CHOOSE i \in 1..Len(ls) : ls[i] = line
    ELSE 0

\* C19: the assembled document has one block per distinct (schema, table)
\* pair of the input with at least one emitted stanza, each emitted stanza
\* is in the document once, the stanzas of one pair are in one block, and
\* inside it they stand in the order of their records in the input.
C19_OneBlockPerPairInInputOrder ==
    asm.stage = "assembled" =>
        LET df == asm.checks_df
            ls == split_lines(asm.yaml_content)
        IN  /\ Cardinality(HeaderPositions(ls)) = Cardinality(EmittedPairs(df))
            /\ \A i \in EmittedRows(df) :
                  BlocksHolding(asm.yaml_content, name_line(df[i])) = 1
            /\ \A i \in EmittedRows(df), j \in EmittedRows(df) :
                  (/\ i < j
                   /\ df[i].schema_name = df[j].schema_name
                   /\ df[i].table_name = df[j].table_name) =>
                      /\ PositionOf(ls, name_line(df[i])) < PositionOf(ls, name_line(df[j]))
                      /\ \A h \in HeaderPositions(ls) :
                            ~(/\ PositionOf(ls, name_line(df[i])) < h
                              /\ h < PositionOf(ls, name_line(df[j])))

\* C20: every 'checks for' header of an assembled document is followed by
\* a rule stanza, and the document has no more headers than the input has
\* (schema, table) pairs with an emitted stanza: a group all of whose checks
\* were skipped contributes no header and no block.
C20_NoEmptyBlock ==
    asm.stage = "assembled" =>
        LET ls == split_lines(asm.yaml_content)
        IN  /\ \A h \in HeaderPositions(ls) :
                  /\ h + 2 <= Len(ls)
                  /\ ls[h + 1] # <<>> /\ ls[h + 1][1] = "  - "
                  /\ ls[h + 2] # <<>> /\ ls[h + 2][1] = "      name: "
            /\ Cardinality(HeaderPositions(ls)) <= Cardinality(EmittedPairs(asm.checks_df))

\* a DataFrame with a table all of whose checks are skipped and a table with
\* a check was assembled into a document with the second table's block only
C20_Witness ==
    /\ asm.stage = "assembled"
    /\ Len(asm.checks_df) = 3
    /\ \A i \in 1..2 :
          /\ asm.checks_df[i].schema_name = <<"d">>
          /\ asm.checks_df[i].table_name = <<"t">>
          /\ asm.checks_df[i].metric = <<"freshness">>
    /\ asm.checks_df[3].schema_name = <<"d">>
    /\ asm.checks_df[3].table_name = <<"u">>
    /\ asm.checks_df[3].metric = <<"row_count">>
    /\ asm.schema_in_connection = NoneStr
    /\ {split_lines(asm.yaml_content)[h] : h \in HeaderPositions(split_lines(asm.yaml_content))}
          = {<<"checks for ", "d", ".", "u", ":">>}

\* the lines of the document that hold any text
TextLines(ls) == {i \in 1..Len(ls) : ls[i] # <<>>}

\* C21: assembling an empty sequence of check records yields a document of
\* a single comment line, with no 'checks for' header and no stanza.
C21_EmptyInputCommentOnly ==
    (asm.stage = "assembled" /\ Len(asm.checks_df) = 0) =>
        LET ls == split_lines(asm.yaml_content)
        IN  /\ Cardinality(TextLines(ls)) = 1
            /\ \A i \in TextLines(ls) : ls[i] = <<"# No checks found">>
            /\ HeaderPositions(ls) = {}
            /\ \A i \in 1..Len(ls) : ls[i] # <<>> => ls[i][1] # "  - "

\* the empty DataFrame was assembled into the comment line and a line break
C21_Witness ==
    /\ asm.stage = "assembled"
    /\ asm.checks_df = <<>>
    /\ asm.yaml_content = <<"# No checks found", "\n">>

(***************************************************************************)
(* Table identifiers: a DataFrame of two tables is assembled, the first    *)
(* with a drawn table name, schema and connection schema.                  *)
(***************************************************************************)

\* the longest table name drawn
MaxTableLen == 3

\* a letter, the characters that ask for quotes, and the qualifier dot
TableAlphabet == {"t", " ", "-", "."}

\* the (schema, table) pairs drawn for both rows of a frame: d.t, s.t,
\* d.'s.t', d.'t u', s.'t u', d.'t.u'
DrawnPairs ==
    {<< <<"d">>, <<"t">> >>, << <<"s">>, <<"t">> >>,
     << <<"d">>, <<"s", ".", "t">> >>,
     << <<"d">>, <<"t", " ", "u">> >>, << <<"s">>, <<"t", " ", "u">> >>,
     << <<"d">>, <<"t", ".", "u">> >>}

IdentInit ==
    /\ \/ \E table \in Texts(TableAlphabet, MaxTableLen) \ {<<>>},
             schema \in SchemaNames, sic \in {NoneStr, <<>>, <<"d">>} :
                asm = [stage |-> "read",
                       checks_df |-> <<DrawnRow(1, schema, table, "row_count"),
                                       DrawnRow(2, <<"s">>, <<"u">>, "row_count")>>,
                       schema_in_connection |-> sic, yaml_content |-> <<>>]
       \/ \E first \in DrawnPairs, second \in DrawnPairs, sic \in {NoneStr, <<"d">>} :
                asm = [stage |-> "read",
                       checks_df |-> <<DrawnRow(1, first[1], first[2], "row_count"),
                                       DrawnRow(2, second[1], second[2], "row_count")>>,
                       schema_in_connection |-> sic, yaml_content |-> <<>>]
    /\ tg = TgIdle
    /\ san = SanIdle /\ rec = RecIdle
    /\ RunIdle

IdentSpec == IdentInit /\ [][AsmNext]_vars

\* the identifier the resolution order gives
ResolvedIdentifier(schema, table, sic) ==
    IF \E i \in 1..Len(table) : table[i] = " " \/ table[i] = "-"
    THEN <<"\"">> \o table \o <<"\"">>
    ELSE IF sic # NoneStr /\ sic # <<>> /\ schema = sic
    THEN table
    ELSE IF schema # NoneStr /\ \A i \in 1..Len(table) : table[i] # "."
    THEN schema \o <<".">> \o table
    ELSE table

\* the header lines of the blocks of the document that hold the line
HeadersOver(doc, line) ==
    LET ls == split_lines(doc)
    IN  {ls[h] : h \in {k \in 1..Len(ls) :
                          /\ IsHeader(ls[k])
                          /\ \E i \in (k + 1)..Len(ls) :
                                /\ ls[i] = line
                                /\ \A m \in (k + 1)..i : ~IsHeader(ls[m])}}

\* C18: table identifier resolution.  The header over each record's stanza
\* names the table by the first rule that applies: (1) a name with a space
\* or hyphen double-quoted, whatever the schema; (2) the bare name when a
\* connection schema is given and equals the record's schema; (3)
\* schema.table when the schema is known and the name has no '.'; (4) the
\* bare name.
C18_IdentifierResolution ==
    asm.stage = "assembled" =>
        \A i \in 1..Len(asm.checks_df) :
            LET c == asm.checks_df[i]
            IN  \A header \in HeadersOver(asm.yaml_content, name_line(c)) :
                    header = <<"checks for ">>
                             \o ResolvedIdentifier(c.schema_name, c.table_name,
                                                   asm.schema_in_connection)
                             \o <<":">>

\* a table name with a hyphen and a dot, in the connection's schema, was
\* emitted double-quoted
C18_Witness ==
    /\ asm.stage = "assembled"
    /\ asm.schema_in_connection = <<"d">>
    /\ asm.checks_df[1].schema_name = <<"d">>
    /\ asm.checks_df[1].table_name = <<"t", "-", ".">>
    /\ HeadersOver(asm.yaml_content, name_line(asm.checks_df[1]))
          = {<<"checks for ", "\"", "t", "-", ".", "\"", ":">>}

\* C30: two table groups with different (schema, table) pairs never stand
\* under the same 'checks for <table>:' header line in one assembled
\* document.
C30_DistinctPairsDistinctHeaders ==
    asm.stage = "assembled" =>
        \A i \in 1..Len(asm.checks_df) : \A j \in 1..Len(asm.checks_df) :
            LET c == asm.checks_df[i]
                e == asm.checks_df[j]
            IN  <<c.schema_name, c.table_name>> # <<e.schema_name, e.table_name>> =>
                    HeadersOver(asm.yaml_content, name_line(c))
                    \cap HeadersOver(asm.yaml_content, name_line(e)) = {}

(***************************************************************************)
(* One record through the emitters: a record is drawn, compiled by         *)
(* _generate_check_yaml, and assembled into a document together with a     *)
(* row_count record of the same table.                                     *)
(***************************************************************************)

OptText(text) == {NoneStr, text}

Operators == {<<"==">>, <<"!=">>, <<">">>, <<">=">>, <<"<">>, <<"<=">>}

\* the operators drawn: absent, the six known ones, and an unknown one
DrawnOperators == {NoneStr, <<"~">>} \cup Operators

\* the threshold values drawn: absent, zero, and a positive number
DrawnThresholds == {NoneInt, 0, 5}

StandardMetrics ==
    (column_required_metrics \ {<<"reference">>}) \cup {<<"row_count">>}

\* the characters of the check names drawn for the name line
InjectionAlphabet == {"a", "\"", "\\", "\n"}

\* the first row of every document of this specification
Sibling == CheckRow(1, <<"s">>, <<"d">>, <<"t">>, <<"row_count">>, NoneStr)

EmitBase(id, metric) == CheckRow(id, <<"a">>, <<"d">>, <<"t">>, metric, NoneStr)

DrawnFreshness(id, column, value, unit) ==
    [EmitBase(id, <<"freshness">>) EXCEPT
        !.freshness_column = column,
        !.freshness_threshold_value = value,
        !.freshness_threshold_unit = unit]

DrawnReference(id, column, ref_table, ref_column, ref_column_quoted) ==
    [EmitBase(id, <<"reference">>) EXCEPT
        !.column_name = column,
        !.reference_table = ref_table,
        !.reference_column = ref_column,
        !.reference_column_quoted = ref_column_quoted]

DrawnCustomSql(id, metric, sql, comparison, threshold) ==
    [EmitBase(id, metric) EXCEPT
        !.check_name = <<"A", " ", "-", "b">>,
        !.custom_sql_query = sql,
        !.fail_comparison = comparison,
        !.fail_threshold = threshold]

DrawnScalar(id, query_a, query_b, operator) ==
    [EmitBase(id, <<"scalar_comparison">>) EXCEPT
        !.scalar_query_a = query_a,
        !.scalar_query_b = query_b,
        !.scalar_operator = operator]

DrawnStandard(id, metric, column, column_quoted, wt, wc, ft, fc) ==
    [EmitBase(id, metric) EXCEPT
        !.column_name = column,
        !.column_name_quoted = column_quoted,
        !.warn_threshold = wt, !.warn_comparison = wc,
        !.fail_threshold = ft, !.fail_comparison = fc]

DrawnNamed(id, metric, name) ==
    [EmitBase(id, metric) EXCEPT
        !.check_name = name,
        !.column_name = <<"c">>,
        !.scalar_query_a = <<"q">>, !.scalar_query_b = <<"w">>,
        !.scalar_operator = <<"==">>]

\* the row_count check 'Row Count Check' with id 7 and fail threshold
\* '>= 100' on the table dbo.orders
RowCountExample ==
    [CheckRow(7, <<"R", "o", "w", " ", "C", "o", "u", "n", "t", " ",
                   "C", "h", "e", "c", "k">>,
              <<"d", "b", "o">>, <<"o", "r", "d", "e", "r", "s">>,
              <<"row_count">>, NoneStr)
        EXCEPT !.fail_threshold = 100, !.fail_comparison = <<">=">>]

\* the characters of the check names drawn for custom SQL checks: letters
\* of both cases, a digit, the underscore and other characters
CustomNameAlphabet == {"a", "B", "5", "_", " ", "%"}

\* the check name 'Nulls > 5%!'
NullsExample == <<"N", "u", "l", "l", "s", " ", ">", " ", "5", "%", "!">>

\* the characters of the column-list payloads drawn
PayloadAlphabet == {"[", "]", ",", "\"", "a", "5"}

\* longer payloads: '["a"]', '[ "a", "b" ]', 'null', 'true', 'false', '0'
PayloadExamples ==
    {<<"[", "\"", "a", "\"", "]">>,
     <<"[", " ", "\"", "a", "\"", ",", " ", "\"", "b", "\"", " ", "]">>,
     <<"n", "u", "l", "l">>, <<"t", "r", "u", "e">>,
     <<"f", "a", "l", "s", "e">>, <<"0">>}

\* the record is the second row read; the first is the sibling
EmitStart(check) ==
    /\ tg = [stage |-> "record", check |-> check,
             lines |-> <<>>, reported |-> <<>>, results |-> <<>>]
    /\ asm = [stage |-> "read", checks_df |-> <<Sibling, check>>,
              schema_in_connection |-> NoneStr, yaml_content |-> <<>>]

EmitInit ==
    /\ \/ \E id \in {NoneInt, 2} :
             \/ \E column \in OptText(<<"c">>), value \in {NoneInt, 1},
                   unit \in OptText(<<"d">>) :
                   EmitStart(DrawnFreshness(id, column, value, unit))
             \/ \E column \in OptText(<<"c">>), ref_table \in OptText(<<"r">>),
                   ref_column \in OptText(<<"k">>),
                   ref_column_quoted \in OptText(<<"[", "k", "]">>) :
                   EmitStart(DrawnReference(id, column, ref_table, ref_column,
                                            ref_column_quoted))
             \/ \E metric \in {<<"user_defined">>, <<"custom_sql">>},
                   sql \in {NoneStr, <<"q">>, <<" ", "q", "\n", "w", "\n">>},
                   comparison \in DrawnOperators, threshold \in DrawnThresholds :
                   EmitStart(DrawnCustomSql(id, metric, sql, comparison, threshold))
             \/ \E query_a \in OptText(<<"q">>), query_b \in OptText(<<" ", "w">>),
                   operator \in DrawnOperators :
                   EmitStart(DrawnScalar(id, query_a, query_b, operator))
             \/ \E metric \in StandardMetrics,
                   column \in OptText(<<"c">>), column_quoted \in OptText(<<"[", "c", "]">>),
                   wt \in DrawnThresholds, wc \in DrawnOperators,
                   ft \in DrawnThresholds, fc \in DrawnOperators :
                   EmitStart(DrawnStandard(id, metric, column, column_quoted,
                                           wt, wc, ft, fc))
             \/ \E metric \in {<<"row_count">>, <<"missing_count">>, <<"scalar_comparison">>},
                   name \in Texts(InjectionAlphabet, MaxNameLen) :
                   EmitStart(DrawnNamed(id, metric, name))
       \/ EmitStart(RowCountExample)
       \/ \E name \in Texts(CustomNameAlphabet, MaxNameLen) \cup {NullsExample},
             comparison \in {NoneStr, <<"==">>, <<">">>} :
             EmitStart([DrawnCustomSql(2, <<"custom_sql">>, <<"q">>, comparison, 5)
                           EXCEPT !.check_name = name])
       \/ \E required \in Texts(PayloadAlphabet, MaxPayloadLen)
                           \cup PayloadExamples \cup {NoneStr},
             forbidden \in {NoneStr, <<>>, <<"[">>, <<"[", "]">>,
                            <<"[", "\"", "b", "\"", "]">>, <<"5">>} :
             EmitStart([EmitBase(2, <<"schema">>) EXCEPT
                           !.schema_required_columns = required,
                           !.schema_forbidden_columns = forbidden])
    /\ san = SanIdle /\ rec = RecIdle
    /\ RunIdle

EmitNext == TagEmit \/ AsmAssemble

EmitSpec == EmitInit /\ [][EmitNext]_vars

\* a required category-specific field of an advanced check is absent
MissingRequired(check) ==
    \/ /\ check.metric = <<"freshness">>
       /\ \/ check.freshness_column = NoneStr
          \/ check.freshness_threshold_value = NoneInt
          \/ check.freshness_threshold_unit = NoneStr
    \/ /\ check.metric = <<"reference">>
       /\ check.reference_table = NoneStr \/ check.reference_column = NoneStr
    \/ /\ check.metric \in {<<"user_defined">>, <<"custom_sql">>}
       /\ check.custom_sql_query = NoneStr
    \/ /\ check.metric = <<"scalar_comparison">>
       /\ check.scalar_query_a = NoneStr \/ check.scalar_query_b = NoneStr

\* the document assembled from the sibling alone
SiblingDocument == generate_yaml_from_checks(<<Sibling>>, NoneStr)

\* C11: silent skip of advanced checks.  A freshness record missing its
\* column, threshold value or unit, a reference record missing its reference
\* table or reference column, a custom-predicate record missing its SQL
\* text, and a scalar-comparison record missing either query compile to
\* zero lines, and the document assembled from the record and its sibling
\* holds the sibling's stanza only: the record is in no block.
C11_SilentSkip ==
    /\ (tg.stage = "emitted" /\ MissingRequired(tg.check)) => tg.lines = <<>>
    /\ (asm.stage = "assembled" /\ MissingRequired(asm.checks_df[2])) =>
          /\ asm.yaml_content = SiblingDocument
          /\ BlocksHolding(asm.yaml_content, name_line(asm.checks_df[2])) = 0

\* a scalar-comparison record with its first query but without its second
\* was compiled to nothing and assembled into a document with one block
C11_Witness ==
    /\ tg.stage = "emitted" /\ asm.stage = "assembled"
    /\ tg.check.metric = <<"scalar_comparison">>
    /\ tg.check.scalar_query_a = <<"q">> /\ tg.check.scalar_query_b = NoneStr
    /\ tg.lines = <<>>
    /\ BlocksHolding(asm.yaml_content, name_line(Sibling)) = 1

\* a standard-metric record whose metric requires a column and has none
ColumnMissing(check) ==
    /\ check.metric \in StandardMetrics \ {<<"row_count">>}
    /\ check.column_name = NoneStr /\ check.column_name_quoted = NoneStr

\* C12: a standard-metric record whose metric requires a column (every
\* standard metric except row_count) and whose column is absent yields no
\* emitted rule: it compiles to zero lines and contributes no stanza to the
\* document.
C12_NoRuleWithoutColumn ==
    /\ (tg.stage = "emitted" /\ ColumnMissing(tg.check)) => tg.lines = <<>>
    /\ (asm.stage = "assembled" /\ ColumnMissing(asm.checks_df[2])) =>
          asm.yaml_content = SiblingDocument

\* inside a double-quoted scalar: every backslash starts an escape pair and
\* no double quote stands unescaped
RECURSIVE WellEscaped(_)
WellEscaped(body) ==
    IF Len(body) = 0 THEN TRUE
    ELSE IF body[1] = "\\" THEN Len(body) >= 2 /\ WellEscaped(SubSeq(body, 3, Len(body)))
    ELSE IF body[1] = "\"" THEN FALSE
    ELSE WellEscaped(Tail(body))

\* C13: injection safety of the name line.  For any check name (also one
\* with double quotes, backslashes or line breaks) the emitted name line is
\* one line holding one double-quoted scalar in which embedded double quotes
\* and backslashes are escaped.
C13_NameLineInjectionSafe ==
    (tg.stage = "emitted" /\ Len(tg.lines) >= 2) =>
        LET line == tg.lines[2]
        IN  /\ Len(line) >= 3
            /\ line[1] = "      name: " /\ line[2] = "\"" /\ line[Len(line)] = "\""
            /\ \A i \in 1..Len(line) : line[i] # "\n"
            /\ WellEscaped(SubSeq(line, 3, Len(line) - 1))

\* the scalar values the two queries are compared on
ScalarValues == 0..2

\* a op b for an operator of the check record
Compare(op, a, b) ==
    CASE op = <<"==">> -> a = b
      [] op = <<"!=">> -> a # b
      [] op = <<">">>  -> a > b
      [] op = <<">=">> -> a >= b
      [] op = <<"<">>  -> a < b
      [] op = <<"<=">> -> a <= b

\* a op b for an operator of the SQL text
SqlCompare(op, a, b) ==
    CASE op = "="  -> a = b
      [] op = "!=" -> a # b
      [] op = ">"  -> a > b
      [] op = ">=" -> a >= b
      [] op = "<"  -> a < b
      [] op = "<=" -> a <= b

\* the last line of the record's stanza
WhereLine == tg.lines[Len(tg.lines)]

\* C16: scalar-comparison inversion.  For each of the six operators the
\* predicate of the emitted WHERE clause compares query_a with query_b and
\* holds for values a, b exactly when 'a op b' does not; an operator outside
\* the table (also an absent one) emits 'query_a != query_b'.
C16_ScalarInversion ==
    (/\ tg.stage = "emitted"
     /\ tg.check.metric = <<"scalar_comparison">>
     /\ ~MissingRequired(tg.check)) =>
        /\ Len(WhereLine) = 6
        /\ WhereLine[1] = "        WHERE "
        /\ WhereLine[2] = "query_a" /\ WhereLine[3] = " "
        /\ WhereLine[5] = " " /\ WhereLine[6] = "query_b"
        /\ tg.check.scalar_operator \in Operators =>
              \A a \in ScalarValues, b \in ScalarValues :
                  SqlCompare(WhereLine[4], a, b) <=>
                      ~Compare(tg.check.scalar_operator, a, b)
        /\ tg.check.scalar_operator \notin Operators => WhereLine[4] = "!="

\* a scalar comparison with operator '>' was emitted with 'query_a <= query_b'
C16_Witness ==
    /\ tg.stage = "emitted"
    /\ tg.check.metric = <<"scalar_comparison">>
    /\ tg.check.scalar_operator = <<">">>
    /\ Len(tg.lines) = 11
    /\ WhereLine = <<"        WHERE ", "query_a", " ", "<=", " ", "query_b">>

\* the positions of the stanza's lines that begin with the given keyword
LinesOf(keyword) == {i \in 1..Len(tg.lines) : tg.lines[i][1] = keyword}

\* the line is the keyword, the operator with '==' written '=', a space and
\* the threshold
IsThresholdLine(line, keyword, comparison, threshold) ==
    line = <<keyword, (IF comparison = <<"==">> THEN "=" ELSE comparison[1]), " ">>
           \o str_int(threshold)

\* C17: threshold rendering.  A standard-metric stanza has a warn line
\* exactly when warn threshold and warn operator are both present, a fail
\* line exactly when fail threshold and fail operator are both present, the
\* warn line before the fail line; the header of a custom-predicate stanza
\* carries the fail operator and threshold when both are present; in each
\* of them '==' is written '=' and every other operator is unchanged.
C17_ThresholdRendering ==
    /\ (tg.stage = "emitted" /\ tg.check.metric \in StandardMetrics) =>
          LET c == tg.check
              warns == LinesOf("      warn: when ")
              fails == LinesOf("      fail: when ")
          IN  /\ Cardinality(warns) =
                    (IF c.warn_threshold # NoneInt /\ c.warn_comparison # NoneStr
                     THEN 1 ELSE 0)
              /\ Cardinality(fails) =
                    (IF c.fail_threshold # NoneInt /\ c.fail_comparison # NoneStr
                     THEN 1 ELSE 0)
              /\ \A w \in warns : IsThresholdLine(tg.lines[w], "      warn: when ",
                                                  c.warn_comparison, c.warn_threshold)
              /\ \A f \in fails : IsThresholdLine(tg.lines[f], "      fail: when ",
                                                  c.fail_comparison, c.fail_threshold)
              /\ \A w \in warns, f \in fails : w < f
              /\ \A i \in 1..Len(tg.lines) : i > 2 => i \in warns \cup fails
    /\ (/\ tg.stage = "emitted"
        /\ tg.check.metric \in {<<"user_defined">>, <<"custom_sql">>}
        /\ ~MissingRequired(tg.check)) =>
          LET c == tg.check
          IN  IF c.fail_threshold # NoneInt /\ c.fail_comparison # NoneStr
              THEN tg.lines[1] =
                      <<"  - ">> \o safe_metric_name(c.check_name) \o <<" ">>
                      \o (IF c.fail_comparison = <<"==">> THEN <<"=">>
                          ELSE c.fail_comparison)
                      \o <<" ">> \o str_int(c.fail_threshold) \o <<":">>
              ELSE tg.lines[1] =
                      <<"  - ">> \o safe_metric_name(c.check_name) \o <<" = 0", ":">>

\* a standard-metric record with warn '== 0' and fail '>= 5' was emitted
\* with the warn line '= 0' before the fail line '>= 5'
C17_Witness ==
    /\ tg.stage = "emitted"
    /\ tg.check.metric = <<"missing_count">>
    /\ tg.check.warn_comparison = <<"==">> /\ tg.check.warn_threshold = 0
    /\ tg.check.fail_comparison = <<">=">> /\ tg.check.fail_threshold = 5
    /\ Len(tg.lines) = 4
    /\ tg.lines[3] = <<"      warn: when ", "=", " ", "0">>
    /\ tg.lines[4] = <<"      fail: when ", ">=", " ", "5">>

\* the name line with the tag of the record's id, when it has one
TaggedNameLine(check) ==
    <<"      name: ", "\"">> \o check.check_name
    \o (IF check.check_id # NoneInt
        THEN <<" ", "[", "check_id:">> \o str_int(check.check_id) \o <<"]">>
        ELSE <<>>)
    \o <<"\"">>

\* C24: standard-metric emission.  A standard metric whose column is
\* present where the metric takes one emits '  - metric(column):' (the
\* quoted column name when there is one), row_count emits '  - row_count:',
\* then comes the tagged name line, then only threshold lines.  The
\* row_count record 'Row Count Check' with id 7 and fail threshold '>= 100'
\* on dbo.orders assembles to the header 'checks for dbo.orders:', the line
\* '  - row_count:', the name line with ' [check_id:7]' and the line
\* '      fail: when >= 100'.
C24_StandardMetricEmission ==
    /\ (/\ tg.stage = "emitted"
        /\ tg.check.metric \in StandardMetrics
        /\ ~ColumnMissing(tg.check)) =>
          LET c == tg.check
              column == IF c.column_name_quoted # NoneStr THEN c.column_name_quoted
                        ELSE c.column_name
          IN  /\ Len(tg.lines) >= 2
              /\ tg.lines[1] = (IF c.metric = <<"row_count">>
                                THEN <<"  - ", "row_count", ":">>
                                ELSE <<"  - ">> \o c.metric \o <<"(">> \o column
                                     \o <<")", ":">>)
              /\ tg.lines[2] = TaggedNameLine(c)
              /\ \A i \in 3..Len(tg.lines) :
                    tg.lines[i][1] \in {"      warn: when ", "      fail: when "}
    /\ (asm.stage = "assembled" /\ asm.checks_df[2] = RowCountExample) =>
          LET ls == split_lines(asm.yaml_content)
              h  == PositionOf(ls, <<"checks for ", "d", "b", "o", ".",
                                     "o", "r", "d", "e", "r", "s", ":">>)
          IN  /\ h > 0 /\ h + 3 <= Len(ls)
              /\ ls[h + 1] = <<"  - ", "row_count", ":">>
              /\ ls[h + 2] = <<"      name: ", "\"", "R", "o", "w", " ", "C", "o", "u",
                               "n", "t", " ", "C", "h", "e", "c", "k", " ", "[",
                               "check_id:", "7", "]", "\"">>
              /\ ls[h + 3] = <<"      fail: when ", ">=", " ", "1", "0", "0">>

\* the example record was emitted and assembled
C24_Witness ==
    /\ tg.stage = "emitted" /\ asm.stage = "assembled"
    /\ tg.check = RowCountExample
    /\ Len(tg.lines) = 3
    /\ BlocksHolding(asm.yaml_content, TaggedNameLine(RowCountExample)) = 1

IsAlnum(c) == IsDigit(c) \/ \E k \in 1..26 : UpperChars[k] = c \/ LowerChars[k] = c

\* the maximal runs of letters and digits of s, lowercased
RECURSIVE AlnumWords(_)
AlnumWords(s) ==
    IF Len(s) = 0 THEN <<>>
    ELSE IF ~IsAlnum(s[1]) THEN AlnumWords(Tail(s))
    ELSE LET n == CHOOSE k \in 1..Len(s) :
                     /\ \A m \in 1..k : IsAlnum(s[m])
                     /\ k < Len(s) => ~IsAlnum(s[k + 1])
         IN  <<lower(SubSeq(s, 1, n))>> \o AlnumWords(SubSeq(s, n + 1, Len(s)))

\* the derived metric name as it stands in the query line of the stanza
DerivedName == SubSeq(tg.lines[3], 2, Len(tg.lines[3]) - 1)

\* C25: custom-predicate metric name.  The derived name is the check name
\* lowercased, every run of non-alphanumeric characters collapsed to one
\* underscore, underscores at the ends removed: it holds only a-z, 0-9 and
\* '_', no two adjacent underscores and no underscore at either end
\* ('Nulls > 5%!' gives 'nulls_5').  The header is '  - <name> <op>
\* <threshold>:' when fail operator and fail threshold are both present and
\* '  - <name> = 0:' otherwise.
C25_DerivedMetricName ==
    (/\ tg.stage = "emitted"
     /\ tg.check.metric \in {<<"user_defined">>, <<"custom_sql">>}
     /\ ~MissingRequired(tg.check)) =>
        LET c == tg.check
            d == DerivedName
        IN  /\ tg.lines[3][1] = "      " /\ tg.lines[3][Len(tg.lines[3])] = " query: |"
            /\ d = py_join(<<"_">>, AlnumWords(c.check_name))
            /\ \A i \in 1..Len(d) :
                  \/ d[i] = "_" \/ IsDigit(d[i])
                  \/ \E k \in 1..26 : LowerChars[k] = d[i]
            /\ \A i \in 1..(Len(d) - 1) : ~(d[i] = "_" /\ d[i + 1] = "_")
            /\ Len(d) > 0 => d[1] # "_" /\ d[Len(d)] # "_"
            /\ c.check_name = NullsExample => d = <<"n", "u", "l", "l", "s", "_", "5">>
            /\ tg.lines[1] =
                  <<"  - ">> \o d
                  \o (IF c.fail_comparison # NoneStr /\ c.fail_threshold # NoneInt
                      THEN <<" ">>
                           \o (IF c.fail_comparison = <<"==">> THEN <<"=">>
                               ELSE c.fail_comparison)
                           \o <<" ">> \o str_int(c.fail_threshold) \o <<":">>
                      ELSE <<" = 0", ":">>)

\* the custom SQL check named 'Nulls > 5%!' with fail threshold '> 5' was
\* emitted under the header '  - nulls_5 > 5:'
C25_Witness ==
    /\ tg.stage = "emitted"
    /\ tg.check.check_name = NullsExample
    /\ tg.check.fail_comparison = <<">">>
    /\ tg.lines[1] = <<"  - ", "n", "u", "l", "l", "s", "_", "5", " ", ">", " ", "5", ":">>

\* the payload is present and decodes to a list with at least one element
ParsesToNonEmptyList(payload) ==
    /\ payload # NoneStr
    /\ json_loads(payload).ok
    /\ json_loads(payload).value.kind = "list"
    /\ json_loads(payload).value.items # <<>>

\* the payload is present and is not JSON
Unparseable(payload) == payload # NoneStr /\ ~json_loads(payload).ok

\* the positions of the stanza's 'fail:' lines
FailLines == {i \in 1..Len(tg.lines) : tg.lines[i] = <<"      fail:">>}

\* C26: schema emitter.  A schema record always emits '  - schema:' and its
\* name line; the stanza holds the 'fail:' line at most once, and exactly
\* when at least one of the two column lists parses to a non-empty list; a
\* list whose payload cannot be parsed omits only its own 'when ...'
\* sub-block: the stanza is the one of the record without that payload.
C26_SchemaEmitter ==
    (tg.stage = "emitted" /\ tg.check.metric = <<"schema">>) =>
        LET c == tg.check
        IN  /\ Len(tg.lines) >= 2
            /\ tg.lines[1] = <<"  - schema:">>
            /\ tg.lines[2] = TaggedNameLine(c)
            /\ Cardinality(FailLines) <= 1
            /\ FailLines # {} <=>
                  \/ ParsesToNonEmptyList(c.schema_required_columns)
                  \/ ParsesToNonEmptyList(c.schema_forbidden_columns)
            /\ Unparseable(c.schema_required_columns) =>
                  tg.lines = _generate_schema_yaml(
                                 [c EXCEPT !.schema_required_columns = NoneStr])
            /\ Unparseable(c.schema_forbidden_columns) =>
                  tg.lines = _generate_schema_yaml(
                                 [c EXCEPT !.schema_forbidden_columns = NoneStr])


(***************************************************************************)
(* Value sanitizer: a value is drawn, sanitized, and the result sanitized  *)
(* again.                                                                  *)
(***************************************************************************)

\* the longest text drawn as a value
MaxValueLen == 4

\* a letter, white space, a reserved character, the quote characters and
\* the backslash
SanAlphabet == {"a", " ", "\t", "\n", ":", "\"", "'", "\\"}

SanStart(value) == san = [stage |-> "value", value |-> value, once |-> <<>>, twice |-> <<>>]

SanInit ==
    /\ \/ SanStart(PyNone)
       \/ \E n \in CheckIds : SanStart(PyInt(n))
       \/ \E text \in Texts(SanAlphabet, MaxValueLen) : SanStart(PyStr(text))
    /\ tg = TgIdle
    /\ asm = AsmIdle
    /\ rec = RecIdle
    /\ RunIdle

\* yaml_safe_value(value)
Sanitize ==
    /\ san.stage = "value"
    /\ san' = [san EXCEPT !.stage = "once", !.once = yaml_safe_value(san.value)]
    /\ UNCHANGED <<tg, asm, rec, run_vars>>

\* yaml_safe_value(yaml_safe_value(value))
SanitizeAgain ==
    /\ san.stage = "once"
    /\ san' = [san EXCEPT !.stage = "twice", !.twice = yaml_safe_value(PyStr(san.once))]
    /\ UNCHANGED <<tg, asm, rec, run_vars>>

SanNext == Sanitize \/ SanitizeAgain

SanSpec == SanInit /\ [][SanNext]_vars

HasLineBreak(text) == \E i \in 1..Len(text) : text[i] = "\n"

HasReserved(text) == \E i \in 1..Len(text) : text[i] \in YAML_SPECIAL_CHARS

Indent8 == <<" ", " ", " ", " ", " ", " ", " ", " ">>

\* out is the marker '|' followed by the lines of text, each indented by 8
IsBlockLiteral(out, text) ==
    LET out_lines  == split_lines(out)
        text_lines == split_lines(text)
    IN  /\ Len(out_lines) = Len(text_lines) + 1
        /\ out_lines[1] = <<"|">>
        /\ \A i \in 1..Len(text_lines) : out_lines[i + 1] = Indent8 \o text_lines[i]

\* every backslash doubled and every double quote preceded by one backslash
RECURSIVE EscapedCharwise(_)
EscapedCharwise(text) ==
    IF Len(text) = 0 THEN <<>>
    ELSE (IF text[1] = "\\" THEN <<"\\", "\\">>
          ELSE IF text[1] = "\"" THEN <<"\\", "\"">>
          ELSE <<text[1]>>) \o EscapedCharwise(Tail(text))

\* C14: yaml_safe_value applies its rules in the order null, stringify,
\* strip, block literal, quoting, verbatim.  None and values empty after
\* stripping give the empty text; a stripped value with a line break (also
\* one that holds a reserved character) is a block literal, the marker '|'
\* and each line indented by 8 spaces; a single-line value with a reserved
\* character or a leading quote character is wrapped in double quotes with
\* backslashes escaped before double quotes; any other value is verbatim.
C14_RuleOrder ==
    san.stage \in {"once", "twice"} =>
        IF san.value.type = "NoneType" THEN san.once = <<>>
        ELSE LET text == strip(IF san.value.type = "str" THEN san.value.text
                               ELSE str_int(san.value.num))
             IN  IF text = <<>> THEN san.once = <<>>
                 ELSE IF HasLineBreak(text)
                 THEN IsBlockLiteral(san.once, text) /\ san.once[1] # "\""
                 ELSE IF HasReserved(text) \/ text[1] \in {"'", "\""}
                 THEN san.once = <<"\"">> \o EscapedCharwise(text) \o <<"\"">>
                 ELSE san.once = text

\* a value with a reserved character, a line break, a backslash and a double
\* quote was emitted as a block literal
C14_Witness ==
    /\ san.stage = "once"
    /\ san.value = PyStr(<<":", "\n", "\\", "\"">>)
    /\ san.once = <<"|", "\n">> \o Indent8 \o <<":", "\n">> \o Indent8 \o <<"\\", "\"">>

\* no reserved character, no leading or trailing space, no newline
SafeString(text) ==
    /\ ~HasReserved(text)
    /\ ~HasLineBreak(text)
    /\ Len(text) > 0 => text[1] # " " /\ text[Len(text)] # " "

\* C15 as claimed: for every string s that has no reserved character, no
\* leading or trailing space and no newline,
\* yaml_safe_value(yaml_safe_value(s)) = yaml_safe_value(s) = s.
C15_IdempotentOnSafeStrings ==
    (san.stage = "twice" /\ san.value.type = "str" /\ SafeString(san.value.text)) =>
        san.twice = san.once /\ san.once = san.value.text

\* C15 amended: for every string s that has no reserved character, no
\* newline, no leading or trailing white space of any kind and no leading
\* quote character, yaml_safe_value(yaml_safe_value(s)) = yaml_safe_value(s)
\* = s.
C15_IdempotentOnUnquotedSafeStrings ==
    (/\ san.stage = "twice" /\ san.value.type = "str"
     /\ SafeString(san.value.text)
     /\ Len(san.value.text) > 0 =>
           /\ san.value.text[1] \notin Whitespace \cup {"'", "\""}
           /\ san.value.text[Len(san.value.text)] \notin Whitespace)
        => san.twice = san.once /\ san.once = san.value.text

\* a safe string with an inner space, an inner double quote and a backslash
\* went through the sanitizer twice unchanged
C15_Witness ==
    /\ san.stage = "twice"
    /\ san.value = PyStr(<<"a", " ", "\"", "\\">>)
    /\ san.twice = <<"a", " ", "\"", "\\">>

(***************************************************************************)
(* One run of execute_suite(SUITE_ID, RUN_ID)                              *)
(***************************************************************************)

SUITE_ID == 1

RUN_ID == "r1"

\* str(e) of the exceptions the collaborators raise
ExceptionTexts == {"", "boom"}

\* the exception raised by the call named origin
Exception(origin, text) == [origin |-> origin, text |-> text]

\* the most enabled checks a suite has
MaxSuite == 2

\* the row with check_id i of a suite: row_count checks on d.t alternate
\* with missing_count checks on d.u
SuiteRow(i) ==
    IF i % 2 = 1
    THEN CheckRow(i, <<"a">>, <<"d">>, <<"t">>, <<"row_count">>, NoneStr)
    ELSE CheckRow(i, <<"a">>, <<"d">>, <<"u">>, <<"missing_count">>, <<"c">>)

\* the suites read_suite_checks may return: from no enabled check to
\* MaxSuite checks, ordered by check_id
SuiteFrames == {[i \in 1..n |-> SuiteRow(i)] : n \in 0..MaxSuite}

\* the outcomes the engine reports (Absent: the entry has no 'outcome')
EngineOutcomes == {"pass", "fail", "warn", "error", Absent}

\* the labels of the name lines of a rule document, in order
RECURSIVE labels_of(_)
labels_of(lines) ==
    IF Len(lines) = 0 THEN <<>>
    ELSE (IF Len(lines[1]) > 0 /\ lines[1][1] = "      name: "
          THEN <<label_of(lines[1])>> ELSE <<>>)
         \o labels_of(Tail(lines))

\* what scan.get_scan_results()['checks'] may hold for a rule document: the
\* engine reports the first k checks of the document, each under its label
EngineReports(doc) ==
    LET labels == labels_of(split_lines(doc))
    IN  UNION {{[i \in 1..k |->
                    ReportedCheck(labels[i], f[i][1],
                                  IF f[i][2] THEN <<5>> ELSE <<>>, NoneInt)] :
                  f \in [1..k -> EngineOutcomes \X BOOLEAN]} : k \in 0..Len(labels)}

\* the dictionary execute_soda_scan returns when scan.execute() returns
ScanOutputs(doc) ==
    {[results |-> r, logs |-> "logs", has_errors |-> h,
      error_logs |-> IF h THEN "scan error" ELSE NoneText] :
        r \in EngineReports(doc), h \in BOOLEAN}

\* a finally block that closes the connection of the run
execute_suite_finally_close(cs, c) ==
    [i \in 1..Len(cs) |-> IF i = c THEN "closed" ELSE cs[i]]

\* the "finally:" block of execute_suite: pass
execute_suite_finally(cs, c) == cs

zero_counts == [total |-> 0, passed |-> 0, failed |-> 0, warned |-> 0]

RunInit ==
    /\ tg = TgIdle /\ asm = AsmIdle /\ san = SanIdle /\ rec = RecIdle
    /\ pc = "connect" /\ conn = 0 /\ execution_log_id = NoneInt /\ checks_df = <<>>
    /\ yaml_content = <<>> /\ error_message = NoneText
    /\ scan_output = [results |-> <<>>, logs |-> "", has_errors |-> FALSE,
                      error_logs |-> NoneText]
    /\ results = <<>> /\ counts = zero_counts
    /\ pending = NoException /\ returned = NoSummary /\ raised = NoException
    /\ connections = <<>>
    \* the ledger is empty or holds the finalized row of an earlier run
    /\ dq_execution_logs \in
          { <<>>,
            sp_update_execution_log(sp_create_execution_log(<<>>, "r0", SUITE_ID),
                update_execution_log(1, zero_counts, <<>>, NoneText)) }
    /\ dq_results = <<>> /\ onelake = {} /\ calls = <<>>

\* "except Exception as e" catches the exception e raised at this position
Catch(e) ==
    /\ pending' = e
    /\ pc' = "except"

\* conn = get_metadata_connection()
Connect ==
    /\ pc = "connect"
    /\ connections' = Append(connections, "open")
    /\ conn' = Len(connections) + 1
    /\ calls' = Append(calls, "connect_to_artifact")
    /\ pc' = "create_log"
    /\ UNCHANGED <<tg, asm, san, rec, execution_log_id, checks_df, yaml_content, error_message,
                   scan_output, results, counts, pending, returned, raised,
                   dq_execution_logs, dq_results, onelake>>

ConnectRaises ==
    /\ pc = "connect"
    /\ \E t \in ExceptionTexts : Catch(Exception("get_metadata_connection", t))
    /\ UNCHANGED <<tg, asm, san, rec, conn, execution_log_id, checks_df, yaml_content, error_message,
                   scan_output, results, counts, returned, raised,
                   connections, dq_execution_logs, dq_results, onelake, calls>>

\* execution_log_id = create_execution_log(conn, run_id, suite_id)
CreateExecutionLog ==
    /\ pc = "create_log"
    /\ dq_execution_logs' = sp_create_execution_log(dq_execution_logs, RUN_ID, SUITE_ID)
    /\ execution_log_id' = dq_execution_logs'[Len(dq_execution_logs')].execution_log_id
    /\ calls' = Append(calls, "sp_create_execution_log")
    /\ pc' = "read"
    /\ UNCHANGED <<tg, asm, san, rec, conn, checks_df, yaml_content, error_message,
                   scan_output, results, counts, pending, returned, raised,
                   connections, dq_results, onelake>>

CreateExecutionLogRaises ==
    /\ pc = "create_log"
    /\ \E t \in ExceptionTexts : Catch(Exception("create_execution_log", t))
    /\ UNCHANGED <<tg, asm, san, rec, conn, execution_log_id, checks_df, yaml_content, error_message,
                   scan_output, results, counts, returned, raised,
                   connections, dq_execution_logs, dq_results, onelake, calls>>

\* checks_df = read_suite_checks(conn, suite_id), and the return when it is empty
ReadSuiteChecks ==
    /\ pc = "read"
    /\ \E df \in SuiteFrames :
          /\ checks_df' = df
          /\ IF Len(df) = 0
             THEN /\ returned' = [NoSummary EXCEPT !.run_id = RUN_ID,
                                                   !.status = "no_checks", !.total = 0]
                  /\ connections' = execute_suite_finally(connections, conn)
                  /\ pc' = "returned"
             ELSE /\ pc' = "yaml"
                  /\ UNCHANGED <<returned, connections>>
    /\ calls' = Append(calls, "read_suite_checks")
    /\ UNCHANGED <<tg, asm, san, rec, conn, execution_log_id, yaml_content, error_message,
                   scan_output, results, counts, pending, raised,
                   dq_execution_logs, dq_results, onelake>>

ReadSuiteChecksRaises ==
    /\ pc = "read"
    /\ \E t \in ExceptionTexts : Catch(Exception("read_suite_checks", t))
    /\ UNCHANGED <<tg, asm, san, rec, conn, execution_log_id, checks_df, yaml_content, error_message,
                   scan_output, results, counts, returned, raised,
                   connections, dq_execution_logs, dq_results, onelake, calls>>

\* yaml_content = generate_yaml_from_checks(checks_df)
GenerateYaml ==
    /\ pc = "yaml"
    /\ yaml_content' = generate_yaml_from_checks(checks_df, NoneStr)
    /\ pc' = "execute"
    /\ UNCHANGED <<tg, asm, san, rec, conn, execution_log_id, checks_df, error_message,
                   scan_output, results, counts, pending, returned, raised,
                   connections, dq_execution_logs, dq_results, onelake, calls>>


\* scan_output = execute_soda_scan(...): scan.execute() returns; the
\* engine's error text becomes error_message when has_errors is set
ExecuteSodaScan ==
    /\ pc = "execute"
    /\ \E out \in ScanOutputs(yaml_content) :
          /\ scan_output' = out
          /\ error_message' = IF out.has_errors THEN out.error_logs ELSE error_message
    /\ calls' = Append(calls, "scan.execute")
    /\ pc' = "parse"
    /\ UNCHANGED <<tg, asm, san, rec, conn, execution_log_id, checks_df, yaml_content,
                   results, counts, pending, returned, raised,
                   connections, dq_execution_logs, dq_results, onelake>>

\* an engine failure that is swallowed and followed by another attempt
ExecuteSodaScanRetries ==
    /\ pc = "execute"
    /\ calls' = Append(calls, "scan.execute")
    /\ UNCHANGED <<tg, asm, san, rec, pc, conn, execution_log_id, checks_df, yaml_content,
                   error_message, scan_output, results, counts, pending, returned, raised,
                   connections, dq_execution_logs, dq_results, onelake>>

\* scan.execute() raises
ExecuteSodaScanRaises ==
    /\ pc = "execute"
    /\ \E t \in ExceptionTexts : Catch(Exception("execute_soda_scan", t))
    /\ calls' = Append(calls, "scan.execute")
    /\ UNCHANGED <<tg, asm, san, rec, conn, execution_log_id, checks_df, yaml_content, error_message,
                   scan_output, results, counts, returned, raised,
                   connections, dq_execution_logs, dq_results, onelake>>

\* a parse step that goes on to the update of the execution log at once
ParseResultsSkippingWrite ==
    /\ pc = "parse"
    /\ results' = parse_scan_results(scan_output.results)
    /\ counts' = count_outcomes(results')
    /\ pc' = "update_log"
    /\ UNCHANGED <<tg, asm, san, rec, conn, execution_log_id, checks_df, yaml_content, error_message,
                   scan_output, pending, returned, raised,
                   connections, dq_execution_logs, dq_results, onelake, calls>>

\* results = parse_scan_results(scan_results); counts = count_outcomes(results)
ParseResults ==
    /\ pc = "parse"
    /\ results' = parse_scan_results(scan_output.results)
    /\ counts' = count_outcomes(results')
    /\ pc' = IF Len(results') = 0 THEN "update_log" ELSE "write_results"
    /\ UNCHANGED <<tg, asm, san, rec, conn, execution_log_id, checks_df, yaml_content, error_message,
                   scan_output, pending, returned, raised,
                   connections, dq_execution_logs, dq_results, onelake, calls>>

\* write_results_to_db: one turn of its loop (dq_results holds the rows of
\* this run only, so the next result is the one after the rows written)
InsertResult ==
    /\ pc = "write_results"
    /\ dq_results' = sp_insert_result(dq_results,
          insert_result_params(execution_log_id, RUN_ID, results[Len(dq_results) + 1]))
    /\ calls' = Append(calls, "sp_insert_result")
    /\ pc' = IF Len(dq_results') = Len(results) THEN "update_log" ELSE "write_results"
    /\ UNCHANGED <<tg, asm, san, rec, conn, execution_log_id, checks_df, yaml_content, error_message,
                   scan_output, results, counts, pending, returned, raised,
                   connections, dq_execution_logs, onelake>>

InsertResultRaises ==
    /\ pc = "write_results"
    /\ \E t \in ExceptionTexts : Catch(Exception("write_results_to_db", t))
    /\ UNCHANGED <<tg, asm, san, rec, conn, execution_log_id, checks_df, yaml_content, error_message,
                   scan_output, results, counts, returned, raised,
                   connections, dq_execution_logs, dq_results, onelake, calls>>

\* update_execution_log(conn, execution_log_id, counts, yaml_content, error_message)
UpdateExecutionLog ==
    /\ pc = "update_log"
    /\ dq_execution_logs' = sp_update_execution_log(dq_execution_logs,
          update_execution_log(execution_log_id, counts, yaml_content, error_message))
    /\ calls' = Append(calls, "sp_update_execution_log")
    /\ pc' = "onelake"
    /\ UNCHANGED <<tg, asm, san, rec, conn, execution_log_id, checks_df, yaml_content, error_message,
                   scan_output, results, counts, pending, returned, raised,
                   connections, dq_results, onelake>>

UpdateExecutionLogRaises ==
    /\ pc = "update_log"
    /\ \E t \in ExceptionTexts : Catch(Exception("update_execution_log", t))
    /\ UNCHANGED <<tg, asm, san, rec, conn, execution_log_id, checks_df, yaml_content, error_message,
                   scan_output, results, counts, returned, raised,
                   connections, dq_execution_logs, dq_results, onelake, calls>>

\* the summary execute_suite returns after the artifact is written
completed_summary ==
    [run_id |-> RUN_ID, execution_log_id |-> execution_log_id, status |-> "completed",
     has_failures |-> counts.failed > 0,
     total |-> counts.total, passed |-> counts.passed, failed |-> counts.failed,
     warned |-> counts.warned, errors |-> counts.errors]

\* log_path = write_to_onelake(...), then the return
WriteToOnelake ==
    /\ pc = "onelake"
    /\ onelake' = onelake \cup
          {[file_name |-> <<"execution_", RUN_ID, ".json">>,
            execution_log_id |-> execution_log_id, summary |-> counts,
            scan_results |-> scan_output.results, yaml_content |-> yaml_content]}
    /\ calls' = Append(calls, "fs.put")
    /\ returned' = completed_summary
    /\ connections' = execute_suite_finally(connections, conn)
    /\ pc' = "returned"
    /\ UNCHANGED <<tg, asm, san, rec, conn, execution_log_id, checks_df, yaml_content, error_message,
                   scan_output, results, counts, pending, raised,
                   dq_execution_logs, dq_results>>

WriteToOnelakeRaises ==
    /\ pc = "onelake"
    /\ \E t \in ExceptionTexts : Catch(Exception("write_to_onelake", t))
    /\ UNCHANGED <<tg, asm, san, rec, conn, execution_log_id, checks_df, yaml_content, error_message,
                   scan_output, results, counts, returned, raised,
                   connections, dq_execution_logs, dq_results, onelake, calls>>

\* "if conn and execution_log_id" in the except block
has_log_row == conn # 0 /\ execution_log_id # NoneInt /\ execution_log_id # 0

\* the rest of the except block: error_message = str(e), then "raise"
Reraise ==
    /\ error_message' = pending.text
    /\ raised' = pending
    /\ connections' = execute_suite_finally(connections, conn)
    /\ pc' = "raised"

\* the except block when its update of the execution log goes through
HandleException ==
    /\ pc = "except"
    /\ has_log_row
    /\ dq_execution_logs' = sp_update_execution_log(dq_execution_logs,
          update_execution_log(execution_log_id, zero_counts, yaml_content, pending.text))
    /\ calls' = Append(calls, "sp_update_execution_log")
    /\ Reraise
    /\ UNCHANGED <<tg, asm, san, rec, conn, execution_log_id, checks_df, yaml_content,
                   scan_output, results, counts, pending, returned,
                   dq_results, onelake>>

\* the except block when its update of the execution log raises: "except: pass"
HandleExceptionUpdateRaises ==
    /\ pc = "except"
    /\ has_log_row
    /\ Reraise
    /\ UNCHANGED <<tg, asm, san, rec, conn, execution_log_id, checks_df, yaml_content,
                   scan_output, results, counts, pending, returned,
                   dq_execution_logs, dq_results, onelake, calls>>

\* the except block when there is no connection or no execution log
HandleExceptionNoLog ==
    /\ pc = "except"
    /\ ~has_log_row
    /\ Reraise
    /\ UNCHANGED <<tg, asm, san, rec, conn, execution_log_id, checks_df, yaml_content,
                   scan_output, results, counts, pending, returned,
                   dq_execution_logs, dq_results, onelake, calls>>

Next ==
    \/ Connect \/ ConnectRaises
    \/ CreateExecutionLog \/ CreateExecutionLogRaises
    \/ ReadSuiteChecks \/ ReadSuiteChecksRaises
    \/ GenerateYaml
    \/ ExecuteSodaScan \/ ExecuteSodaScanRaises
    \/ ParseResults
    \/ InsertResult \/ InsertResultRaises
    \/ UpdateExecutionLog \/ UpdateExecutionLogRaises
    \/ WriteToOnelake \/ WriteToOnelakeRaises
    \/ HandleException \/ HandleExceptionUpdateRaises \/ HandleExceptionNoLog

Spec == RunInit /\ [][Next]_vars

(***************************************************************************)
(* Result reconciler: an engine report is drawn, parsed, counted and       *)
(* written as result rows.                                                 *)
(***************************************************************************)

\* the most entries of a report drawn with names and values
MaxReported == 2

\* the most entries of a report drawn with outcomes only
MaxOutcomes == 5

\* no 'name' key, a name without tag, a name with the tag of id 0, a name
\* with an unfinished tag, a name with two tags
ReportedNames ==
    {NoneStr,
     <<"a">>,
     <<"a", " ", "[", "check_id:", "0", "]">>,
     <<"a", "[", "check_id:", "]">>,
     <<"[", "check_id:", "1", "2", "]", "[", "check_id:", "3", "]">>}

\* (value under 'diagnostics', top-level value): neither, top-level only,
\* both, a None under 'diagnostics' beside a top-level value
ReportedValues == {<<<<>>, NoneInt>>, <<<<>>, 4>>, <<<<3>>, 4>>, <<<<NoneInt>>, 4>>}

\* the outcomes reported: the four counted ones, another one, and none
ReportedOutcomes == {"pass", "fail", "warn", "error", "skipped", Absent}

RecStart(checks) ==
    rec = [stage |-> "reported", checks |-> checks, results |-> <<>>,
           counts |-> <<>>, rows |-> <<>>]

RecInit ==
    /\ \/ \E n \in 0..MaxReported :
             \E names \in [1..n -> ReportedNames],
                outcomes \in [1..n -> {"pass", Absent}],
                values \in [1..n -> ReportedValues] :
                RecStart([i \in 1..n |->
                    ReportedCheck(names[i], outcomes[i], values[i][1], values[i][2])])
       \/ \E n \in 0..MaxOutcomes :
             \E outcomes \in [1..n -> ReportedOutcomes] :
                RecStart([i \in 1..n |->
                    ReportedCheck(<<"a">>, outcomes[i], <<>>, NoneInt)])
    /\ tg = TgIdle /\ asm = AsmIdle /\ san = SanIdle
    /\ RunIdle

\* parse_scan_results(scan_results)
RecParse ==
    /\ rec.stage = "reported"
    /\ rec' = [rec EXCEPT !.stage = "parsed", !.results = parse_scan_results(rec.checks)]
    /\ UNCHANGED <<tg, asm, san, run_vars>>

\* count_outcomes(results)
RecCount ==
    /\ rec.stage = "parsed"
    /\ rec' = [rec EXCEPT !.stage = "counted", !.counts = count_outcomes(rec.results)]
    /\ UNCHANGED <<tg, asm, san, run_vars>>

\* write_results_to_db(conn, execution_log_id, run_id, results)
RecWrite ==
    /\ rec.stage = "counted"
    /\ rec' = [rec EXCEPT !.stage = "written",
                          !.rows = write_results_to_db(<<>>, 1, RUN_ID, rec.results)]
    /\ UNCHANGED <<tg, asm, san, run_vars>>

RecNext == RecParse \/ RecCount \/ RecWrite

RecSpec == RecInit /\ [][RecNext]_vars

\* a tag stands in s from position i to position j + 1
TagAt(s, i, j) ==
    /\ i + 2 <= j /\ j + 1 <= Len(s)
    /\ s[i] = "[" /\ s[i + 1] = "check_id:" /\ s[j + 1] = "]"
    /\ \A k \in (i + 2)..j : IsDigit(s[k])

\* the number in the first tag of s, absent when s has no tag
RecoveredId(s) ==
    IF \E i \in 1..Len(s), j \in 1..Len(s) : TagAt(s, i, j)
    THEN LET i == CHOOSE a \in 1..Len(s) :
                     /\ \E j \in 1..Len(s) : TagAt(s, a, j)
                     /\ \A b \in 1..(a - 1) : \A j \in 1..Len(s) : ~TagAt(s, b, j)
             j == CHOOSE k \in 1..Len(s) : TagAt(s, i, k)
         IN  int_str(SubSeq(s, i + 2, j))
    ELSE NoneInt

\* C22: parse_scan_results returns one outcome record per entry of the
\* engine's 'checks' list, in the same order; the outcome is the reported
\* one, or 'unknown' when the entry has none; the value is the one under
\* 'diagnostics' when the entry has one, otherwise the top-level value; the
\* check_id is the identity recovered from the reported name, absent when
\* the name has no tag.
C22_OneRecordPerReportedCheck ==
    rec.stage # "reported" /\ rec.stage # "idle" =>
        /\ Len(rec.results) = Len(rec.checks)
        /\ \A i \in 1..Len(rec.checks) :
              LET c == rec.checks[i]
                  r == rec.results[i]
                  name == IF c.name = NoneStr THEN <<>> ELSE c.name
              IN  /\ r.check_name = name
                  /\ r.outcome = (IF c.outcome = Absent THEN "unknown" ELSE c.outcome)
                  /\ r.value = (IF c.diagnostics # <<>> THEN c.diagnostics[1] ELSE c.value)
                  /\ r.check_id = RecoveredId(name)

\* a report of two entries was parsed: the first with two tags and a
\* diagnostics value, the second without name, outcome and diagnostics
C22_Witness ==
    /\ rec.stage = "parsed"
    /\ rec.checks = <<ReportedCheck(<<"[", "check_id:", "1", "2", "]",
                                     "[", "check_id:", "3", "]">>, "pass", <<3>>, 4),
                      ReportedCheck(NoneStr, Absent, <<>>, 4)>>
    /\ rec.results[1].check_id = 12 /\ rec.results[1].value = 3
    /\ rec.results[2].check_id = NoneInt /\ rec.results[2].outcome = "unknown"
    /\ rec.results[2].value = 4

\* the number of results with the given outcome
OutcomesEqual(outcome) ==
    Cardinality({i \in 1..Len(rec.results) : rec.results[i].outcome = outcome})

\* C23: count_outcomes.  total is the number of outcomes, passed, failed,
\* warned and errors are the numbers of outcomes equal to 'pass', 'fail',
\* 'warn' and 'error', an outcome of another category adds to total only,
\* and so passed + failed + warned + errors <= total.
C23_CountsByCategory ==
    rec.stage \in {"counted", "written"} =>
        /\ rec.counts.total = Len(rec.results)
        /\ rec.counts.passed = OutcomesEqual("pass")
        /\ rec.counts.failed = OutcomesEqual("fail")
        /\ rec.counts.warned = OutcomesEqual("warn")
        /\ rec.counts.errors = OutcomesEqual("error")
        /\ rec.counts.passed + rec.counts.failed + rec.counts.warned
              + rec.counts.errors <= rec.counts.total

\* the outcomes pass, pass, fail, warn, unknown were counted as total 5,
\* passed 2, failed 1, warned 1
C23_Witness ==
    /\ rec.stage = "counted"
    /\ [i \in 1..Len(rec.results) |-> rec.results[i].outcome]
          = <<"pass", "pass", "fail", "warn", "unknown">>
    /\ rec.counts = [total |-> 5, passed |-> 2, failed |-> 1, warned |-> 1, errors |-> 0]

\* C29: the check_id written to a result row is the identity the reconciler
\* recovered for that outcome, for every recovered id >= 0 (0 included);
\* the row's check_id is NULL only when no identity was recovered.
C29_RecoveredIdWritten ==
    rec.stage = "written" =>
        /\ Len(rec.rows) = Len(rec.results)
        /\ \A i \in 1..Len(rec.results) :
              /\ rec.results[i].check_id >= 0 =>
                    rec.rows[i].check_id = rec.results[i].check_id
              /\ rec.rows[i].check_id = NoneInt => rec.results[i].check_id = NoneInt


(***************************************************************************)
(* Properties of one run                                                   *)
(***************************************************************************)

\* execute_suite has returned or raised
Finished == pc \in {"returned", "raised"}

\* the execution-log rows of this run
RunRows == {i \in 1..Len(dq_execution_logs) : dq_execution_logs[i].run_id = RUN_ID}

\* the run has created its execution-log row
HasRow == execution_log_id # NoneInt

\* the execution-log row the run created
LogRow == dq_execution_logs[execution_log_id]

\* the number of calls of the given name made so far
Count(name) == Cardinality({i \in 1..Len(calls) : calls[i] = name})

\* C1: the execution-log row is mutated at most once after it is created:
\* sp_update_execution_log is applied at most once in a run, and once the
\* status of a row has left 'running' it never changes again.
C1_FinalizedOnce ==
    [][ /\ Cardinality({i \in 1..Len(calls') : calls'[i] = "sp_update_execution_log"}) <= 1
        /\ \A i \in 1..Len(dq_execution_logs) :
              dq_execution_logs[i].execution_status # "running" =>
                 dq_execution_logs'[i].execution_status
                    = dq_execution_logs[i].execution_status ]_vars

\* C2: when execute_suite has returned or raised, the row it created is
\* 'completed' or 'failed', never still 'running'.
C2_Finalized ==
    (Finished /\ HasRow) => LogRow.execution_status \in {"completed", "failed"}

\* C3: when the engine reports has_errors without raising, the report does
\* not raise (the run goes on to parse; an exception of such a run comes from
\* a later call), and the update at the end of the run records status
\* 'failed', the engine's error text and the counts of the reported checks.
C3_EngineErrorsRecorded ==
    /\ (scan_output.has_errors /\ pc \in {"onelake", "returned"}) =>
          /\ LogRow.execution_status = "failed"
          /\ LogRow.error_message = scan_output.error_logs
          /\ LogRow.total_checks = Len(scan_output.results)
          /\ LogRow.checks_passed = Cardinality({i \in 1..Len(scan_output.results) :
                                        scan_output.results[i].outcome = "pass"})
          /\ LogRow.checks_failed = Cardinality({i \in 1..Len(scan_output.results) :
                                        scan_output.results[i].outcome = "fail"})
          /\ LogRow.checks_warned = Cardinality({i \in 1..Len(scan_output.results) :
                                        scan_output.results[i].outcome = "warn"})
    /\ (scan_output.has_errors /\ pc = "parse") =>
          /\ pending = NoException
          /\ error_message = scan_output.error_logs
    /\ (scan_output.has_errors /\ pending # NoException) =>
          pending.origin \in {"write_results_to_db", "update_execution_log",
                              "write_to_onelake"}

\* a run with engine errors returned after two checks reported, one passing
C3_Witness ==
    /\ pc = "returned" /\ scan_output.has_errors
    /\ LogRow.execution_status = "failed"
    /\ LogRow.total_checks = 2 /\ LogRow.checks_passed = 1 /\ LogRow.checks_warned = 1

\* C4 as stated: the status 'failed' is written only in a run in which an
\* exception was raised.
C4_FailedOnlyByException ==
    (HasRow /\ LogRow.execution_status = "failed") => pending # NoException

\* C4 as amended: 'failed' is written only in a run in which an exception
\* was raised or the engine reported has_errors; a run that returns its
\* summary without engine errors has written 'completed'.
C4_FailedByExceptionOrEngineErrors ==
    /\ (HasRow /\ LogRow.execution_status = "failed") =>
          (pending # NoException \/ scan_output.has_errors)
    /\ (pc = "returned" /\ returned.status = "completed" /\ ~scan_output.has_errors) =>
          LogRow.execution_status = "completed"

\* a run without exception and without engine errors, with a failing check,
\* has returned
C4_Witness ==
    /\ pc = "returned" /\ returned.status = "completed" /\ ~scan_output.has_errors
    /\ pending = NoException
    /\ counts.failed = 1
    /\ LogRow.execution_status = "completed"

\* C5: when a call raises after the execution-log row exists, the row is
\* updated with status 'failed', zero counts and the exception text, and the
\* original exception reaches the caller, also when that update fails.
C5_ExceptionRecorded ==
    (pc = "raised" /\ HasRow) =>
        /\ raised = pending
        /\ (Len(calls) > 0 /\ calls[Len(calls)] = "sp_update_execution_log") =>
              /\ LogRow.execution_status = "failed"
              /\ LogRow.total_checks = 0 /\ LogRow.checks_passed = 0
              /\ LogRow.checks_failed = 0 /\ LogRow.checks_warned = 0
              /\ LogRow.error_message = pending.text

\* C6 as stated: after any run the ledger holds exactly one execution-log
\* row of the run and exactly one result row for each reconciled outcome.
C6_OneRowPerRunAndOutcome ==
    Finished =>
        /\ Cardinality(RunRows) = 1
        /\ Len(dq_results) = Len(results)

\* C6 as amended: after a run there is exactly one execution-log row of the
\* run if the run created it and none otherwise; the result rows are, in
\* order, rows of the first outcomes of the reconciler (none duplicated), and
\* of all of them (as many as the engine reported checks) when the run
\* returns its summary.
C6_OneRowPerCreatedRunAndWrittenOutcome ==
    Finished =>
        /\ Cardinality(RunRows) = (IF HasRow THEN 1 ELSE 0)
        /\ HasRow => LogRow.run_id = RUN_ID
        /\ Len(dq_results) <= Len(results)
        /\ \A i \in 1..Len(dq_results) :
              /\ dq_results[i].check_name = results[i].check_name
              /\ dq_results[i].check_outcome = results[i].outcome
              /\ dq_results[i].execution_log_id = execution_log_id
              /\ dq_results[i].run_id = RUN_ID
        /\ (pc = "returned" /\ returned.status = "completed") =>
              /\ Len(dq_results) = Len(results)
              /\ Len(dq_results) = Len(scan_output.results)

\* a run has returned with two result rows next to the row of an earlier run
C6_Witness ==
    /\ pc = "returned" /\ Len(dq_results) = 2
    /\ Len(dq_execution_logs) = 2 /\ RunRows = {2}

\* C7: a run invokes the engine at most once, and an exception of the engine
\* call ends the run: nothing is returned, and the exception is the one that
\* reaches the caller.
C7_EngineOnceNoRetry ==
    /\ Count("scan.execute") <= 1
    /\ pending.origin = "execute_soda_scan" =>
          /\ pc \in {"except", "raised"}
          /\ returned = NoSummary
          /\ Count("scan.execute") = 1
          /\ pc = "raised" => raised = pending

\* the exception of the engine call has reached the caller
C7_Witness ==
    /\ pc = "raised" /\ raised.origin = "execute_soda_scan" /\ raised.text = "boom"
    /\ Count("scan.execute") = 1

\* C8 as stated: after execute_suite returns or raises, no connection it
\* opened remains open.
C8_ConnectionReleased ==
    Finished => \A c \in 1..Len(connections) : connections[c] = "closed"

\* C8 as amended: a run opens at most one connection and does not release
\* it: after execute_suite returns or raises, the connection it opened is
\* still open.
C8_ConnectionLeftOpen ==
    /\ Len(connections) <= 1
    /\ (Finished /\ conn # 0) => connections[conn] = "open"

\* a run has raised at the artifact write with the connection it opened
C8_Witness ==
    /\ pc = "raised" /\ conn = 1 /\ Len(connections) = 1
    /\ raised.origin = "write_to_onelake"


\* the positions of the calls of the given name
Pos(name) == {i \in 1..Len(calls) : calls[i] = name}

\* every call of name b is preceded by a call of name a
Before(a, b) == \A i \in Pos(b) : \E j \in Pos(a) : j < i

\* all result rows were written before the call at position i
AllRowsWrittenBefore(i) ==
    Cardinality({j \in Pos("sp_insert_result") : j < i}) = Len(results)

\* the orderings of the phases up to the result rows, and of the archive
EarlyAndLastPhasesOrdered ==
    /\ Before("sp_create_execution_log", "read_suite_checks")
    /\ Pos("scan.execute") # {} =>
          /\ Len(checks_df) > 0
          /\ yaml_content = generate_yaml_from_checks(checks_df, NoneStr)
    /\ Pos("sp_insert_result") # {} =>
          /\ Before("scan.execute", "sp_insert_result")
          /\ results = parse_scan_results(scan_output.results)
          /\ Len(dq_results) <= Len(results)
    /\ Before("sp_update_execution_log", "fs.put")

\* C27 as stated: in every run the execution-log row is created before the
\* checks are read, the engine is invoked only after the rule document is
\* assembled, result rows are written only after the engine has returned
\* and its output was parsed, the ledger row is finalized only after all
\* result rows are written, and the archive is written only after the
\* ledger row is finalized.
C27_PhaseOrdering ==
    /\ EarlyAndLastPhasesOrdered
    /\ \A i \in Pos("sp_update_execution_log") : AllRowsWrittenBefore(i)

\* C27 as amended: the same orderings, where the finalization that waits for
\* all result rows is the one of a run in which no exception was raised; the
\* handler of an exception finalizes the row whatever rows were written, and
\* the archive is written only after a finalization that followed all rows.
C27_PhaseOrderingUnlessRaised ==
    /\ EarlyAndLastPhasesOrdered
    /\ pending = NoException =>
          \A i \in Pos("sp_update_execution_log") : AllRowsWrittenBefore(i)
    /\ \A i \in Pos("fs.put") :
          \E j \in Pos("sp_update_execution_log") : j < i /\ AllRowsWrittenBefore(j)
    /\ (pending # NoException /\ Pos("sp_update_execution_log") # {}) =>
          \A i \in Pos("sp_update_execution_log") :
             AllRowsWrittenBefore(i) \/ (pc = "raised" /\ i = Len(calls))

\* a run of two checks went through every phase and returned
C27_Witness ==
    /\ pc = "returned" /\ pending = NoException
    /\ Len(results) = 2 /\ Len(dq_results) = 2
    /\ calls = <<"connect_to_artifact", "sp_create_execution_log", "read_suite_checks",
                 "scan.execute", "sp_insert_result", "sp_insert_result",
                 "sp_update_execution_log", "fs.put">>

\* C28: whenever execute_suite returns a summary for a run that executed
\* checks, the status of the summary equals the status the run wrote to its
\* execution-log row.
C28_SummaryStatusMatchesLedger ==
    (pc = "returned" /\ Pos("scan.execute") # {}) =>
        returned.status = LogRow.execution_status

====
